---- MODULE Spec2Model ----
(***************************************************************************)
(* The worker side of the Hadoop Pipes protocol of pydoop                  *)
(* (pydoop/mapreduce/pipes.py): BinaryProtocol.__next__, the command       *)
(* dispatcher run by run_task, the itertools.groupby loop of RUN_REDUCE,   *)
(* and Context.emit / Context.close.                                       *)
(*                                                                         *)
(* Control is one Python thread.  pc is its position; stack holds the      *)
(* groupby loops that are in progress (one per RUN_REDUCE handler that has *)
(* not returned), innermost last.  trace is a history variable: every      *)
(* downlink read, uplink write and user-component call, in order.          *)
(***************************************************************************)
EXTENDS Integers, Sequences, FiniteSets, TLC

(* ------------------------------ bounds --------------------------------- *)
\* Downlink commands read, Context.emit calls and records a record reader
\* yields in one run, for each specification.
MaxCmds == 4
MaxEmits == 1
MaxRecords == 1
MaxAuthCmds == 3
MaxMapCmds == 4
MaxMapEmits == 2
MaxMapRecords == 2
MaxReduceCmds == 7
MaxAbortCmds == 5
MaxCommands == 5
\* Items of the flat list a JobConf is built from, and commands read in the
\* runs that send SET_JOB_CONF.
MaxItems == 4
MaxConfCmds == 2
MaxEmitCmds == 5
MaxTypeCmds == 5
\* The digests are 0..NDigests-1.
NDigests == 3

(* ------------------------- program constants --------------------------- *)
PROTOCOL_VERSION == 0
START == 0
SET_JOB_CONF == 1
SET_INPUT_TYPES == 2
RUN_MAP == 3
MAP_ITEM == 4
RUN_REDUCE == 5
REDUCE_KEY == 6
REDUCE_VALUE == 7
CLOSE == 8
ABORT == 9
AUTHENTICATION_REQ == 10
OUTPUT == 50
PARTITIONED_OUTPUT == 51
STATUS == 52
PROGRESS == 53
DONE == 54
REGISTER_COUNTER == 55
INCREMENT_COUNTER == 56
AUTHENTICATION_RESP == 57

(* ------------------------------ values --------------------------------- *)
\* Python's None, and the NULL of groupby's C fields.
None == -1
\* A user value or a raw byte string on the wire.
Keys == {1, 2}
\* pickle.dumps / pickle.loads: an injective encoding with a disjoint range;
\* loads of bytes that are no pickle raises.
PickleBase == 10
dumps(x) == x + PickleBase
IsPickle(b) == b \in {dumps(k) : k \in Keys}
loads(b) == b - PickleBase
\* as_text(x).encode("utf-8")
Utf8Base == 20
utf8(x) == x + Utf8Base
\* sercore's typed reads of the built-in Writable types
LongBase == 30
TextBase == 40

\* string_utils.create_digest(key, msg): a keyed digest.  Its source is not
\* part of the files at hand; it is a function of both arguments.
Digests == 0..(NDigests - 1)
create_digest(key, msg) == (2 * key + msg + 1) % NDigests

Secrets == {1, 2}

(* ------------------------------- state --------------------------------- *)
VARIABLES
  password,          \* BinaryProtocol.password: None or the shared secret
  factory,           \* Factory: which optional classes were supplied
  kwargs,            \* run_task's keyword arguments
  auth_done,         \* BinaryProtocol.auth_done
  private_encoding,  \* CommandWriter.private_encoding
  auto_serialize,    \* CommandWriter.auto_serialize
  get_k, get_v,      \* BinaryProtocol.get_k / get_v (class attributes)
  context,           \* the Context object's fields
  stack,             \* groupby objects of the RUN_REDUCE handlers in progress
  pc,                \* position of the thread
  pull,              \* TRUE while RUN_MAP's "for ... in reader" loop runs
  ret,               \* what a __next__ call hands to its caller
  err,               \* the exception that ended the run ("" if none)
  trace,             \* history: reads, uplink writes, component calls
  nreads, nemits, nrecords,
  jc                 \* an api.JobConf built outside the engine, and a call on it

vars == <<password, factory, kwargs, auth_done, private_encoding, auto_serialize,
          get_k, get_v, context, stack, pc, pull, ret, err, trace,
          nreads, nemits, nrecords, jc>>

config == <<password, factory, kwargs>>

\* Events of the trace, all <<name, a, b, c, d>> with integer fields:
\*   "read"   a downlink command: opcode and fields
\*   "up"     an uplink command: opcode and fields
\*   "create_..."  the factory makes a component
\*   "record" the record reader yields (key, value)
\*   "map"    Mapper.map is called; context.key, context.value
\*   "reduce" Reducer.reduce is called; context.key
\*   "value"  context.values yields a value to the reducer
\*   "end"    context.values tells the reducer it is exhausted
\*   "emit"   Context.emit(key, value) is called
\*   "rw_emit"    RecordWriter.emit(key, value)
\*   "partition"  Partitioner.partition(key, numReduces)
\*   "close"  the close of component CloseOrder[a]; b = 1 if it raises
ReadEv(cmd, a, b) == <<"read", cmd, a, b, None>>
Up(op, a, b, c) == <<"up", op, a, b, c>>
Call(name, a, b) == <<name, a, b, None, None>>

RetNone == [kind |-> "none", cmd |-> None, val |-> None]
RetItem(c, v) == [kind |-> "item", cmd |-> c, val |-> v]
RetStop == [kind |-> "stop", cmd |-> None, val |-> None]

\* A groupby object (itertools.groupby over the protocol, keyed by opcode):
\* tgtkey, currkey, currvalue as in CPython, None for NULL; phase says who
\* is stepping the underlying iterator: "outer" is groupby.__next__,
\* "inner" the current group's iterator, pulled by the reducer through
\* context.values; gen_done says that context.values is exhausted.
NoItem == [cmd |-> None, val |-> None]
NewGroupby ==
  [tgtkey |-> None, currkey |-> None, currvalue |-> NoItem,
   phase |-> "outer", gen_done |-> FALSE]

Top == stack[Len(stack)]
Pop == SubSeq(stack, 1, Len(stack) - 1)
SetTop(f) == [stack EXCEPT ![Len(stack)] = f]

\* Context.__init__
Context0 ==
  [job_conf |-> "dict", key |-> None, value |-> None, input_split |-> None,
   mapper |-> FALSE, partitioner |-> FALSE, record_reader |-> FALSE,
   record_writer |-> FALSE, reducer |-> FALSE, nred |-> None]

\* Python values a JobConf getter takes or hands back: None, a bool, a str
\* (a sequence of characters), and an exception raised instead; t is the
\* type and v what tells the values of one type apart.
PyNone == [t |-> "None", v |-> <<>>]
PyBool(b) == [t |-> "bool", v |-> IF b THEN <<"True">> ELSE <<"False">>]
PyStr(s) == [t |-> "str", v |-> s]
PyRaise(e) == [t |-> "raise", v |-> <<e>>]

\* No JobConf(...) call has been made yet.
NoJobConf ==
  [values |-> <<>>, err |-> "", built |-> FALSE, conf |-> <<>>, order |-> <<>>,
   call |-> <<>>, result |-> PyNone]

Factories == [rclass : BOOLEAN, pclass : BOOLEAN, rwclass : BOOLEAN, rrclass : BOOLEAN]

\* BinaryProtocol.__init__ and Context.__init__, under the given
\* configuration (secret file, factory classes, run_task keyword arguments).
InitWith(pw, f, kw) ==
  /\ password = pw
  /\ factory = f
  /\ kwargs = kw
  /\ auth_done = FALSE
  /\ private_encoding = kw.private_encoding
  /\ auto_serialize = kw.auto_serialize
  /\ get_k = "bytes"
  /\ get_v = "bytes"
  /\ context = Context0
  /\ stack = <<>>
  /\ pc = "next"
  /\ pull = FALSE
  /\ ret = RetNone
  /\ err = ""
  /\ trace = <<>>
  /\ nreads = 0
  /\ nemits = 0
  /\ nrecords = 0
  /\ jc = NoJobConf

\* An exception other than StopIteration leaves __next__: nothing in
\* pipes.py catches it, so it ends run_task.
Raise(e) ==
  /\ pc' = "error"
  /\ err' = e
  /\ UNCHANGED <<ret, pull>>

\* __next__ returns r (or raises StopIteration) to whoever called it.
Return(r) ==
  /\ pc' = "deliver"
  /\ ret' = r
  /\ UNCHANGED <<err, pull>>

\* A __next__ without the check that opens it.
ReadCmdUnchecked(cmd, limit) ==
  /\ pc = "next"
  /\ nreads < limit
  /\ nreads' = nreads + 1

\* cmd = self.stream.read_vint(), by a caller positioned at __next__, and
\* the check that opens __next__.
ReadCmd(cmd, limit) ==
  /\ pc = "next"
  /\ nreads < limit
  /\ nreads' = nreads + 1
  /\ cmd = AUTHENTICATION_REQ \/ auth_done

\* if cmd != AUTHENTICATION_REQ and not self.auth_done: raise RuntimeError
Unauthenticated(cmd, limit) ==
  /\ pc = "next"
  /\ nreads < limit
  /\ nreads' = nreads + 1
  /\ cmd # AUTHENTICATION_REQ
  /\ ~auth_done
  /\ trace' = Append(trace, ReadEv(cmd, None, None))
  /\ Raise("RuntimeError: received before authentication")
  /\ UNCHANGED <<config, jc, auth_done, private_encoding, auto_serialize, get_k,
                 get_v, context, stack, nemits, nrecords>>

\* A verify_digest that accepts every digest.
AnyDigestMatches(digest, challenge) == TRUE

\* verify_digest: the digest the server presents is the expected one.
DigestMatches(digest, challenge) ==
  create_digest(password, challenge) = digest

\* verify_digest: the response digest sent upstream.
ResponseDigest(digest) == create_digest(password, digest)

\* An AUTHENTICATION_REQ handler that forgets an earlier authentication
\* when the digest does not match.
AuthenticationReqResets(digest, challenge, limit) ==
  /\ ReadCmd(AUTHENTICATION_REQ, limit)
  /\ trace' = Append(trace, ReadEv(AUTHENTICATION_REQ, digest, challenge))
  /\ IF password # None /\ ~DigestMatches(digest, challenge)
       THEN /\ Raise("RuntimeError: server failed to authenticate")
            /\ auth_done' = FALSE
       ELSE /\ auth_done' = TRUE
            /\ Return(RetNone)
  /\ UNCHANGED <<config, jc, private_encoding, auto_serialize, get_k, get_v,
                 context, stack, nemits, nrecords>>

\* An AUTHENTICATION_REQ handler that verifies and answers also when no
\* secret is configured.
AuthenticationReqAlwaysVerifies(digest, challenge, limit) ==
  /\ ReadCmd(AUTHENTICATION_REQ, limit)
  /\ IF ~DigestMatches(digest, challenge)
       THEN /\ trace' = Append(trace, ReadEv(AUTHENTICATION_REQ, digest, challenge))
            /\ Raise("RuntimeError: server failed to authenticate")
            /\ UNCHANGED auth_done
       ELSE /\ trace' = trace \o <<ReadEv(AUTHENTICATION_REQ, digest, challenge),
                                    Up(AUTHENTICATION_RESP, ResponseDigest(digest), None, None)>>
            /\ auth_done' = TRUE
            /\ Return(RetNone)
  /\ UNCHANGED <<config, jc, private_encoding, auto_serialize, get_k, get_v,
                 context, stack, nemits, nrecords>>

\* An AUTHENTICATION_REQ handler that sends the response digest before it
\* compares the digest presented.
AuthenticationReqAnswersFirst(digest, challenge, limit) ==
  /\ ReadCmd(AUTHENTICATION_REQ, limit)
  /\ trace' = trace \o <<ReadEv(AUTHENTICATION_REQ, digest, challenge)>>
       \o (IF password # None
             THEN <<Up(AUTHENTICATION_RESP, ResponseDigest(digest), None, None)>>
             ELSE <<>>)
  /\ IF password # None /\ ~DigestMatches(digest, challenge)
       THEN /\ Raise("RuntimeError: server failed to authenticate")
            /\ UNCHANGED auth_done
       ELSE /\ auth_done' = TRUE
            /\ Return(RetNone)
  /\ UNCHANGED <<config, jc, private_encoding, auto_serialize, get_k, get_v,
                 context, stack, nemits, nrecords>>

\* An AUTHENTICATION_REQ handler that verifies only while the engine is
\* unauthenticated, and takes a later request without looking at it.
AuthenticationReqOnce(digest, challenge, limit) ==
  /\ ReadCmd(AUTHENTICATION_REQ, limit)
  /\ IF ~auth_done /\ password # None /\ ~DigestMatches(digest, challenge)
       THEN /\ trace' = Append(trace, ReadEv(AUTHENTICATION_REQ, digest, challenge))
            /\ Raise("RuntimeError: server failed to authenticate")
            /\ UNCHANGED auth_done
       ELSE /\ trace' = trace \o <<ReadEv(AUTHENTICATION_REQ, digest, challenge)>>
                \o (IF ~auth_done /\ password # None
                      THEN <<Up(AUTHENTICATION_RESP, ResponseDigest(digest), None, None)>>
                      ELSE <<>>)
            /\ auth_done' = TRUE
            /\ Return(RetNone)
  /\ UNCHANGED <<config, jc, private_encoding, auto_serialize, get_k, get_v,
                 context, stack, nemits, nrecords>>

\* AUTHENTICATION_REQ and verify_digest
AuthenticationReq(digest, challenge, limit) ==
  /\ ReadCmd(AUTHENTICATION_REQ, limit)
  /\ IF password # None /\ ~DigestMatches(digest, challenge)
       THEN /\ trace' = Append(trace, ReadEv(AUTHENTICATION_REQ, digest, challenge))
            /\ Raise("RuntimeError: server failed to authenticate")
            /\ UNCHANGED auth_done
       ELSE /\ trace' = trace \o <<ReadEv(AUTHENTICATION_REQ, digest, challenge)>>
                \o (IF password # None
                      THEN <<Up(AUTHENTICATION_RESP, ResponseDigest(digest), None, None)>>
                      ELSE <<>>)
            /\ auth_done' = TRUE
            /\ Return(RetNone)
  /\ UNCHANGED <<config, jc, private_encoding, auto_serialize, get_k, get_v,
                 context, stack, nemits, nrecords>>

\* A START handler that accepts every version.
StartAnyVersion(v, limit) ==
  /\ ReadCmd(START, limit)
  /\ trace' = Append(trace, ReadEv(START, v, None))
  /\ Return(RetNone)
  /\ UNCHANGED <<config, jc, auth_done, private_encoding, auto_serialize, get_k,
                 get_v, context, stack, nemits, nrecords>>

\* START
Start(v, limit) ==
  /\ ReadCmd(START, limit)
  /\ trace' = Append(trace, ReadEv(START, v, None))
  /\ IF v # PROTOCOL_VERSION
       THEN Raise("RuntimeError: Unknown protocol id")
       ELSE Return(RetNone)
  /\ UNCHANGED <<config, jc, auth_done, private_encoding, auto_serialize, get_k,
                 get_v, context, stack, nemits, nrecords>>

\* read_job_conf: an odd count is refused; otherwise JobConf is handed a
\* generator of pairs, and api.JobConf.__init__ starts with len(values),
\* which a generator does not have.
read_job_conf(n) ==
  IF n % 2 = 1 THEN "RuntimeError: number of items is not even"
  ELSE "TypeError: object of type 'generator' has no len()"

\* SET_JOB_CONF: read_job_conf raises before context.job_conf is assigned.
SetJobConf(n, limit) ==
  /\ ReadCmd(SET_JOB_CONF, limit)
  /\ trace' = Append(trace, ReadEv(SET_JOB_CONF, n, None))
  /\ Raise(read_job_conf(n))
  /\ UNCHANGED <<config, jc, auth_done, private_encoding, auto_serialize, get_k,
                 get_v, context, stack, nemits, nrecords>>

\* setup_record_writer: "" or the error it raises.
setup_record_writer(piped_output) ==
  IF factory.rwclass /\ piped_output THEN "RuntimeError: record writer defined when not needed"
  ELSE IF ~factory.rwclass /\ ~piped_output THEN "RuntimeError: record writer not defined"
  ELSE ""

\* A RUN_MAP that does not check the record reader against pipedInput.
NoReaderCheck(piped_input) == ""

\* RUN_MAP's check of the record reader against pipedInput: "" or the error.
check_record_reader(piped_input) ==
  IF factory.rrclass /\ piped_input THEN "RuntimeError: record reader defined when not needed"
  ELSE IF ~factory.rrclass /\ ~piped_input THEN "RuntimeError: record reader not defined"
  ELSE ""

\* A RUN_MAP whose map-only branch finds a job configuration in which the
\* flag for a host record writer is unset, and so goes on to the mapper and
\* the partitioner.
RunMapWithJobConf(nred, piped_input, limit) ==
  /\ ReadCmd(RUN_MAP, limit)
  /\ LET c1 == [context EXCEPT !.input_split = 1, !.record_reader = factory.rrclass]
         c2 == [c1 EXCEPT !.nred = nred, !.mapper = TRUE, !.partitioner = factory.pclass]
         rd == ReadEv(RUN_MAP, nred, IF piped_input THEN 1 ELSE 0)
     IN IF check_record_reader(piped_input) # ""
          THEN /\ context' = c1
               /\ trace' = trace \o <<rd, Call("create_record_reader", None, None)>>
               /\ Raise(check_record_reader(piped_input))
               /\ UNCHANGED private_encoding
          ELSE /\ context' = c2
               /\ trace' = trace \o <<rd, Call("create_record_reader", None, None),
                                      Call("create_mapper", None, None),
                                      Call("create_partitioner", None, None)>>
               /\ private_encoding' = (private_encoding /\ nred >= 1)
               /\ UNCHANGED err
               /\ IF factory.rrclass
                    THEN pc' = "pull" /\ pull' = TRUE /\ UNCHANGED ret
                    ELSE pc' = "deliver" /\ ret' = RetNone /\ UNCHANGED pull
  /\ UNCHANGED <<config, jc, auth_done, auto_serialize, get_k, get_v, stack,
                 nemits, nrecords>>

\* A RUN_MAP whose map-only branch leaves the output encoding as configured.
RunMapKeepsEncoding(nred, piped_input, limit) ==
  /\ ReadCmd(RUN_MAP, limit)
  /\ LET c1 == [context EXCEPT !.input_split = 1, !.record_reader = factory.rrclass]
         c2 == [c1 EXCEPT !.nred = nred, !.mapper = TRUE, !.partitioner = factory.pclass]
         rd == ReadEv(RUN_MAP, nred, IF piped_input THEN 1 ELSE 0)
     IN IF check_record_reader(piped_input) # ""
          THEN /\ context' = c1
               /\ trace' = trace \o <<rd, Call("create_record_reader", None, None)>>
               /\ Raise(check_record_reader(piped_input))
        ELSE IF nred < 1
          THEN /\ context' = c1
               /\ trace' = trace \o <<rd, Call("create_record_reader", None, None)>>
               /\ Raise("AttributeError: 'dict' object has no attribute 'get_bool'")
        ELSE /\ context' = c2
             /\ trace' = trace \o <<rd, Call("create_record_reader", None, None),
                                    Call("create_mapper", None, None),
                                    Call("create_partitioner", None, None)>>
             /\ UNCHANGED err
             /\ IF factory.rrclass
                  THEN pc' = "pull" /\ pull' = TRUE /\ UNCHANGED ret
                  ELSE pc' = "deliver" /\ ret' = RetNone /\ UNCHANGED pull
  /\ UNCHANGED <<config, jc, auth_done, private_encoding, auto_serialize, get_k,
                 get_v, stack, nemits, nrecords>>

\* RUN_MAP.  The input split is an opaque value (1).  In a map-only job
\* (nred < 1) context.job_conf.get_bool is looked up on the plain dict that
\* Context.__init__ stores, which has no such method.
RunMap(nred, piped_input, limit) ==
  /\ ReadCmd(RUN_MAP, limit)
  /\ LET c1 == [context EXCEPT !.input_split = 1, !.record_reader = factory.rrclass]
         c2 == [c1 EXCEPT !.nred = nred, !.mapper = TRUE, !.partitioner = factory.pclass]
         rd == ReadEv(RUN_MAP, nred, IF piped_input THEN 1 ELSE 0)
     IN IF check_record_reader(piped_input) # ""
          THEN /\ context' = c1
               /\ trace' = trace \o <<rd, Call("create_record_reader", None, None)>>
               /\ Raise(check_record_reader(piped_input))
               /\ UNCHANGED private_encoding
        ELSE IF nred < 1
          THEN /\ context' = c1
               /\ private_encoding' = FALSE
               /\ trace' = trace \o <<rd, Call("create_record_reader", None, None)>>
               /\ Raise("AttributeError: 'dict' object has no attribute 'get_bool'")
        ELSE /\ context' = c2
             /\ trace' = trace \o <<rd, Call("create_record_reader", None, None),
                                    Call("create_mapper", None, None),
                                    Call("create_partitioner", None, None)>>
             /\ UNCHANGED <<private_encoding, err>>
             /\ IF factory.rrclass
                  THEN pc' = "pull" /\ pull' = TRUE /\ UNCHANGED ret
                  ELSE pc' = "deliver" /\ ret' = RetNone /\ UNCHANGED pull
  /\ UNCHANGED <<config, jc, auth_done, auto_serialize, get_k, get_v, stack,
                 nemits, nrecords>>


\* DESERIALIZERS.get(type_name): None for a name that is not built in.
DESERIALIZERS(type_name) ==
  IF type_name = "org.apache.hadoop.io.LongWritable" THEN "LongWritable"
  ELSE IF type_name = "org.apache.hadoop.io.Text" THEN "Text"
  ELSE "None"

\* What the trace keeps of a type name: 1 and 2 for the two built-in
\* types, 0 for any other name.
TypeCode(type_name) ==
  IF type_name = "org.apache.hadoop.io.LongWritable" THEN 1
  ELSE IF type_name = "org.apache.hadoop.io.Text" THEN 2
  ELSE 0

\* SET_INPUT_TYPES
SetInputTypes(key_type, value_type, limit) ==
  /\ ReadCmd(SET_INPUT_TYPES, limit)
  /\ trace' = Append(trace, ReadEv(SET_INPUT_TYPES, TypeCode(key_type),
                                   TypeCode(value_type)))
  /\ get_k' = IF ~kwargs.raw_k /\ DESERIALIZERS(key_type) # "None"
                THEN DESERIALIZERS(key_type) ELSE get_k
  /\ get_v' = IF ~kwargs.raw_v /\ DESERIALIZERS(value_type) # "None"
                THEN DESERIALIZERS(value_type) ELSE get_v
  /\ Return(RetNone)
  /\ UNCHANGED <<config, jc, auth_done, private_encoding, auto_serialize,
                 context, stack, nemits, nrecords>>

\* get_k() / get_v() under the deserializer in force: whether it raises on
\* the bytes b (pickle.loads of bytes that are no pickle) ...
DecodeFails(d, b) == d = "pickled" /\ ~IsPickle(b)
\* ... and what it yields otherwise.
Decode(d, b) ==
  IF d = "LongWritable" THEN b + LongBase
  ELSE IF d = "Text" THEN b + TextBase
  ELSE IF d = "pickled" THEN loads(b)
  ELSE b

\* MAP_ITEM: the mapper runs next (pc = "map"); with no mapper created,
\* self.context.mapper.map is an attribute of None.
MapItem(k, v, limit) ==
  /\ ReadCmd(MAP_ITEM, limit)
  /\ IF DecodeFails(get_k, k)
       THEN /\ trace' = Append(trace, ReadEv(MAP_ITEM, k, None))
            /\ Raise("UnpicklingError")
            /\ UNCHANGED context
     ELSE IF DecodeFails(get_v, v)
       THEN /\ trace' = Append(trace, ReadEv(MAP_ITEM, k, v))
            /\ context' = [context EXCEPT !.key = Decode(get_k, k)]
            /\ Raise("UnpicklingError")
     ELSE /\ context' = [context EXCEPT !.key = Decode(get_k, k),
                                        !.value = Decode(get_v, v)]
          /\ IF context.mapper
               THEN /\ trace' = trace \o <<ReadEv(MAP_ITEM, k, v),
                                           Call("map", context'.key, context'.value)>>
                    /\ pc' = "map"
                    /\ UNCHANGED <<err, ret, pull>>
               ELSE /\ trace' = Append(trace, ReadEv(MAP_ITEM, k, v))
                    /\ Raise("AttributeError: 'NoneType' object has no attribute 'map'")
  /\ UNCHANGED <<config, jc, auth_done, private_encoding, auto_serialize, get_k,
                 get_v, stack, nemits, nrecords>>

\* RUN_REDUCE up to the first step of its groupby loop: the handler does
\* not return before that loop ends.
RunReduce(piped_output, limit) ==
  /\ ReadCmd(RUN_REDUCE, limit)
  /\ context' = [context EXCEPT !.reducer = factory.rclass,
                                !.record_writer = factory.rwclass]
  /\ trace' = trace \o <<ReadEv(RUN_REDUCE, 0, IF piped_output THEN 1 ELSE 0),
                         Call("create_reducer", None, None),
                         Call("create_record_writer", None, None)>>
  /\ IF setup_record_writer(piped_output) # ""
       THEN /\ Raise(setup_record_writer(piped_output))
            /\ UNCHANGED <<get_k, get_v, stack>>
       ELSE /\ get_k' = IF private_encoding THEN "pickled" ELSE get_k
            /\ get_v' = IF private_encoding THEN "pickled" ELSE get_v
            /\ stack' = Append(stack, NewGroupby)
            /\ pc' = "next"
            /\ UNCHANGED <<err, ret, pull>>
  /\ UNCHANGED <<config, jc, auth_done, private_encoding, auto_serialize,
                 nemits, nrecords>>

\* REDUCE_KEY: return cmd, k
ReduceKey(k, limit) ==
  /\ ReadCmd(REDUCE_KEY, limit)
  /\ trace' = Append(trace, ReadEv(REDUCE_KEY, k, None))
  /\ IF DecodeFails(get_k, k)
       THEN Raise("UnpicklingError")
       ELSE Return(RetItem(REDUCE_KEY, Decode(get_k, k)))
  /\ UNCHANGED <<config, jc, auth_done, private_encoding, auto_serialize, get_k,
                 get_v, context, stack, nemits, nrecords>>

\* REDUCE_VALUE: return cmd, v
ReduceValue(v, limit) ==
  /\ ReadCmd(REDUCE_VALUE, limit)
  /\ trace' = Append(trace, ReadEv(REDUCE_VALUE, v, None))
  /\ IF DecodeFails(get_v, v)
       THEN Raise("UnpicklingError")
       ELSE Return(RetItem(REDUCE_VALUE, Decode(get_v, v)))
  /\ UNCHANGED <<config, jc, auth_done, private_encoding, auto_serialize, get_k,
                 get_v, context, stack, nemits, nrecords>>

\* An ABORT handler that drops the command.
AbortIgnored(limit) ==
  /\ ReadCmd(ABORT, limit)
  /\ trace' = Append(trace, ReadEv(ABORT, None, None))
  /\ Return(RetNone)
  /\ UNCHANGED <<config, jc, auth_done, private_encoding, auto_serialize, get_k,
                 get_v, context, stack, nemits, nrecords>>

\* ABORT
Abort(limit) ==
  /\ ReadCmd(ABORT, limit)
  /\ trace' = Append(trace, ReadEv(ABORT, None, None))
  /\ Raise("RuntimeError: received ABORT command")
  /\ UNCHANGED <<config, jc, auth_done, private_encoding, auto_serialize, get_k,
                 get_v, context, stack, nemits, nrecords>>

\* A CLOSE handler that closes the context whether or not a mapper exists.
CloseAlways(limit) ==
  /\ ReadCmd(CLOSE, limit)
  /\ trace' = Append(trace, ReadEv(CLOSE, None, None))
  /\ pc' = "close"
  /\ UNCHANGED <<err, ret, pull>>
  /\ UNCHANGED <<config, jc, auth_done, private_encoding, auto_serialize, get_k,
                 get_v, context, stack, nemits, nrecords>>

\* CLOSE: with a mapper, context.close() then StopIteration; without one,
\* return cmd, None.
Close(limit) ==
  /\ ReadCmd(CLOSE, limit)
  /\ trace' = Append(trace, ReadEv(CLOSE, None, None))
  /\ IF context.mapper
       THEN pc' = "close" /\ UNCHANGED <<err, ret, pull>>
       ELSE Return(RetItem(CLOSE, None))
  /\ UNCHANGED <<config, jc, auth_done, private_encoding, auto_serialize, get_k,
                 get_v, context, stack, nemits, nrecords>>

\* The opcodes __next__ has a branch for.
Downlink == {START, SET_JOB_CONF, SET_INPUT_TYPES, RUN_MAP, MAP_ITEM, RUN_REDUCE,
             REDUCE_KEY, REDUCE_VALUE, CLOSE, ABORT, AUTHENTICATION_REQ}

\* The opcodes of the commands the engine writes.
Uplink == {OUTPUT, PARTITIONED_OUTPUT, STATUS, PROGRESS, DONE, REGISTER_COUNTER,
           INCREMENT_COUNTER, AUTHENTICATION_RESP}

\* A last branch that drops the command instead of raising.
UnknownIgnored(cmd, limit) ==
  /\ cmd \notin Downlink
  /\ ReadCmd(cmd, limit)
  /\ trace' = Append(trace, ReadEv(cmd, None, None))
  /\ Return(RetNone)
  /\ UNCHANGED <<config, jc, auth_done, private_encoding, auto_serialize, get_k,
                 get_v, context, stack, nemits, nrecords>>

\* else: raise RuntimeError("unknown command")
UnknownCommand(cmd, limit) ==
  /\ cmd \notin Downlink
  /\ ReadCmd(cmd, limit)
  /\ trace' = Append(trace, ReadEv(cmd, None, None))
  /\ Raise("RuntimeError: unknown command")
  /\ UNCHANGED <<config, jc, auth_done, private_encoding, auto_serialize, get_k,
                 get_v, context, stack, nemits, nrecords>>

(* ---------------- returning from __next__ to its caller ----------------- *)

\* run_task's "for _ in connection.downlink: pass": an item is dropped and
\* the next command is read; StopIteration ends the loop.
ReturnToRunTask ==
  /\ pc = "deliver"
  /\ stack = <<>>
  /\ pc' = IF ret.kind = "stop" THEN "done" ELSE "next"
  /\ UNCHANGED <<config, jc, auth_done, private_encoding, auto_serialize, get_k,
                 get_v, context, stack, pull, ret, err, trace, nreads, nemits,
                 nrecords>>

\* A groupby that does not skip the rest of a group left unread.
NeverSkips(f) == FALSE

\* groupby.__next__ after one step of the underlying iterator: the loop
\* that skips to the next group goes on while the new key equals tgtkey.
SkipsOn(f) == f.tgtkey # None /\ f.tgtkey = f.currkey

\* A groupby that takes a None from the protocol iterator as nothing and
\* steps it again.
ReturnToGroupbySkipsNone ==
  /\ pc = "deliver"
  /\ stack # <<>>
  /\ Top.phase = "outer"
  /\ IF ret.kind = "none"
       THEN /\ pc' = "next"
            /\ UNCHANGED <<stack, ret, err, pull>>
     ELSE IF ret.kind = "stop"
       THEN /\ stack' = Pop
            /\ Return(RetNone)
     ELSE LET f == [Top EXCEPT !.currkey = ret.cmd,
                               !.currvalue = [cmd |-> ret.cmd, val |-> ret.val]]
          IN /\ IF SkipsOn(f)
                  THEN stack' = SetTop(f) /\ pc' = "next"
                  ELSE stack' = SetTop([f EXCEPT !.tgtkey = f.currkey]) /\ pc' = "group"
             /\ UNCHANGED <<ret, err, pull>>
  /\ UNCHANGED <<config, jc, auth_done, private_encoding, auto_serialize, get_k,
                 get_v, context, trace, nreads, nemits, nrecords>>

\* The caller is groupby.__next__ (the for statement of RUN_REDUCE):
\* itemgetter(0) of None raises TypeError; StopIteration exhausts the
\* groupby, the for loop ends and the RUN_REDUCE handler returns None to
\* its own caller; an item becomes currvalue, and either opens a new group
\* or is skipped.
ReturnToGroupby ==
  /\ pc = "deliver"
  /\ stack # <<>>
  /\ Top.phase = "outer"
  /\ IF ret.kind = "none"
       THEN /\ Raise("TypeError: 'NoneType' object is not subscriptable")
            /\ UNCHANGED stack
     ELSE IF ret.kind = "stop"
       THEN /\ stack' = Pop
            /\ Return(RetNone)
     ELSE LET f == [Top EXCEPT !.currkey = ret.cmd,
                               !.currvalue = [cmd |-> ret.cmd, val |-> ret.val]]
          IN /\ IF SkipsOn(f)
                  THEN stack' = SetTop(f) /\ pc' = "next"
                  ELSE stack' = SetTop([f EXCEPT !.tgtkey = f.currkey]) /\ pc' = "group"
             /\ UNCHANGED <<ret, err, pull>>
  /\ UNCHANGED <<config, jc, auth_done, private_encoding, auto_serialize, get_k,
                 get_v, context, trace, nreads, nemits, nrecords>>

\* The caller is the current group's iterator, stepped by the reducer's
\* read of context.values: an item of the same opcode is the next value,
\* any other item or StopIteration ends the values.
ReturnToGrouper ==
  /\ pc = "deliver"
  /\ stack # <<>>
  /\ Top.phase = "inner"
  /\ IF ret.kind = "none"
       THEN /\ Raise("TypeError: 'NoneType' object is not subscriptable")
            /\ UNCHANGED <<stack, trace>>
     ELSE IF ret.kind = "stop"
       THEN /\ stack' = SetTop([Top EXCEPT !.gen_done = TRUE])
            /\ trace' = Append(trace, Call("end", None, None))
            /\ pc' = "reduce"
            /\ UNCHANGED <<ret, err, pull>>
     ELSE IF ret.cmd = Top.tgtkey
       THEN /\ stack' = SetTop([Top EXCEPT !.currkey = ret.cmd, !.currvalue = NoItem])
            /\ trace' = Append(trace, Call("value", ret.val, None))
            /\ pc' = "reduce"
            /\ UNCHANGED <<ret, err, pull>>
     ELSE /\ stack' = SetTop([Top EXCEPT !.currkey = ret.cmd,
                                        !.currvalue = [cmd |-> ret.cmd, val |-> ret.val],
                                        !.gen_done = TRUE])
          /\ trace' = Append(trace, Call("end", None, None))
          /\ pc' = "reduce"
          /\ UNCHANGED <<ret, err, pull>>
  /\ UNCHANGED <<config, jc, auth_done, private_encoding, auto_serialize, get_k,
                 get_v, context, nreads, nemits, nrecords>>

(* ------------------- the body of RUN_REDUCE's for loop ------------------ *)

\* if cmd == REDUCE_KEY: _, self.context.key = next(subs), which takes the
\* group's first item only; the for statement then steps the groupby.
GroupReduceKey ==
  /\ pc = "group"
  /\ Top.tgtkey = REDUCE_KEY
  /\ context' = [context EXCEPT !.key = Top.currvalue.val]
  /\ stack' = SetTop([Top EXCEPT !.currvalue = NoItem])
  /\ pc' = "next"
  /\ UNCHANGED <<config, jc, auth_done, private_encoding, auto_serialize, get_k,
                 get_v, pull, ret, err, trace, nreads, nemits, nrecords>>

\* if cmd == REDUCE_VALUE: context.values is a generator over the group,
\* not started; the reducer runs (pc = "reduce").
GroupReduceValue ==
  /\ pc = "group"
  /\ Top.tgtkey = REDUCE_VALUE
  /\ IF context.reducer
       THEN /\ stack' = SetTop([Top EXCEPT !.phase = "inner", !.gen_done = FALSE])
            /\ trace' = Append(trace, Call("reduce", context.key, None))
            /\ pc' = "reduce"
            /\ UNCHANGED <<ret, err, pull>>
       ELSE /\ Raise("AttributeError: 'NoneType' object has no attribute 'reduce'")
            /\ UNCHANGED <<stack, trace>>
  /\ UNCHANGED <<config, jc, auth_done, private_encoding, auto_serialize, get_k,
                 get_v, context, nreads, nemits, nrecords>>

\* if cmd == CLOSE: context.close(), then StopIteration leaves the
\* RUN_REDUCE handler that owns this groupby.
GroupClose ==
  /\ pc = "group"
  /\ Top.tgtkey = CLOSE
  /\ stack' = Pop
  /\ pc' = "close"
  /\ UNCHANGED <<config, jc, auth_done, private_encoding, auto_serialize, get_k,
                 get_v, context, pull, ret, err, trace, nreads, nemits, nrecords>>

(* ------------------------------ Context -------------------------------- *)

\* The user's partitioner: hash(key) mod numReduces, on integers.
partition(key, nred) == key % nred

\* An encoding that looks at auto-serialize before the opaque mode.
EncodeTextFirst(x) ==
  IF auto_serialize THEN utf8(x)
  ELSE IF context.mapper /\ private_encoding THEN dumps(x)
  ELSE x

\* Context.emit's encoding of a key or a value
Encode(x) ==
  IF context.mapper /\ private_encoding THEN dumps(x)
  ELSE IF auto_serialize THEN utf8(x)
  ELSE x

\* An emit that never asks the partitioner.
SendPlainOutput(key, value) == <<Up(OUTPUT, key, value, None)>>

\* Context.emit's choice between the two uplink commands
SendOutput(key, value) ==
  IF context.partitioner
    THEN <<Call("partition", key, context.nred),
           Up(PARTITIONED_OUTPUT, partition(key, context.nred), key, value)>>
    ELSE <<Up(OUTPUT, key, value, None)>>

\* An emit that asks the partitioner about the key as the user gave it.
emitPartitionsPlainKey(key, value) ==
  <<Call("emit", key, value)>> \o
  (IF context.record_writer
     THEN <<Call("rw_emit", key, value)>>
   ELSE IF context.partitioner
     THEN <<Call("partition", key, context.nred),
            Up(PARTITIONED_OUTPUT, partition(key, context.nred), Encode(key),
               Encode(value))>>
   ELSE <<Up(OUTPUT, Encode(key), Encode(value), None)>>)

\* An emit that does not look at the record writer.
emitToUplink(key, value) ==
  <<Call("emit", key, value)>> \o SendOutput(Encode(key), Encode(value))

\* Context.emit(key, value): the events it appends to the trace.
emit(key, value) ==
  <<Call("emit", key, value)>> \o
  (IF context.record_writer
     THEN <<Call("rw_emit", key, value)>>
     ELSE SendOutput(Encode(key), Encode(value)))

\* The components Context.close() closes, in its order.
CloseOrder == <<"mapper", "record_reader", "record_writer", "reducer">>

\* The close calls of a close() that goes on to the later components
\* after the failing-th component's close raised.
CloseCallsGoesOn(failing) ==
  LET one(i) == IF context[CloseOrder[i]]
                  THEN <<Call("close", i, IF i = failing THEN 1 ELSE 0)>>
                  ELSE <<>>
  IN  one(1) \o one(2) \o one(3) \o one(4)

\* The close calls in the reverse of the order of pipes.py:476-483.
CloseCallsReversed(failing) ==
  LET one(i) == IF context[CloseOrder[i]] /\ (failing = 0 \/ i >= failing)
                  THEN <<Call("close", i, IF i = failing THEN 1 ELSE 0)>>
                  ELSE <<>>
  IN  one(4) \o one(3) \o one(2) \o one(1)

\* The close calls made when the failing-th component's close raises
\* (0: none raises): each one present, up to the one that raises.
CloseCalls(failing) ==
  LET one(i) == IF context[CloseOrder[i]] /\ (failing = 0 \/ i <= failing)
                  THEN <<Call("close", i, IF i = failing THEN 1 ELSE 0)>>
                  ELSE <<>>
  IN one(1) \o one(2) \o one(3) \o one(4)

\* A close whose uplink.done() is not in a finally clause.
closeWithoutFinally(failing) ==
  CloseCalls(failing) \o (IF failing = 0 THEN <<Up(DONE, None, None, None)>> ELSE <<>>)

\* Context.close(): the try block's closes, then uplink.done() in finally.
close(failing) == CloseCalls(failing) \o <<Up(DONE, None, None, None)>>

\* try: self.context.close() finally: raise StopIteration.  An exception
\* of a component's close is replaced by the StopIteration.
ContextClose(failing) ==
  /\ pc = "close"
  /\ IF failing = 0 THEN TRUE ELSE context[CloseOrder[failing]]
  /\ trace' = trace \o close(failing)
  /\ pull' = FALSE
  /\ pc' = "deliver"
  /\ ret' = RetStop
  /\ UNCHANGED <<config, jc, auth_done, private_encoding, auto_serialize, get_k,
                 get_v, context, stack, err, nreads, nemits, nrecords>>

(* --------------------------- user components --------------------------- *)

\* The mapper's map calls context.emit.
MapperEmit(k, v, limit) ==
  /\ pc = "map"
  /\ nemits < limit
  /\ nemits' = nemits + 1
  /\ trace' = trace \o emit(k, v)
  /\ UNCHANGED <<config, jc, auth_done, private_encoding, auto_serialize, get_k,
                 get_v, context, stack, pc, pull, ret, err, nreads, nrecords>>

\* map returns: to the reader loop of RUN_MAP, or MAP_ITEM's handler
\* returns None.
MapperReturn ==
  /\ pc = "map"
  /\ IF pull
       THEN pc' = "pull" /\ UNCHANGED <<ret, err, pull>>
       ELSE Return(RetNone)
  /\ UNCHANGED <<config, jc, auth_done, private_encoding, auto_serialize, get_k,
                 get_v, context, stack, trace, nreads, nemits, nrecords>>

\* map raises under a try whose finally clause finalizes the task.
MapperRaiseFinalizes ==
  /\ pc = "map"
  /\ pc' = "close"
  /\ err' = "map error"
  /\ UNCHANGED <<config, jc, auth_done, private_encoding, auto_serialize, get_k,
                 get_v, context, stack, pull, ret, trace, nreads, nemits, nrecords>>

\* map raises.
MapperRaise ==
  /\ pc = "map"
  /\ Raise("map error")
  /\ UNCHANGED <<config, jc, auth_done, private_encoding, auto_serialize, get_k,
                 get_v, context, stack, trace, nreads, nemits, nrecords>>

\* for self.context.key, self.context.value in reader: the reader yields
\* a record and the mapper runs on it.
RecordReaderNext(k, v, limit) ==
  /\ pc = "pull"
  /\ nrecords < limit
  /\ nrecords' = nrecords + 1
  /\ context' = [context EXCEPT !.key = k, !.value = v]
  /\ trace' = trace \o <<Call("record", k, v), Call("map", context'.key, context'.value)>>
  /\ pc' = "map"
  /\ UNCHANGED <<config, jc, auth_done, private_encoding, auto_serialize, get_k,
                 get_v, stack, pull, ret, err, nreads, nemits>>

\* The reader is exhausted: context.close(), then StopIteration.
RecordReaderExhausted ==
  /\ pc = "pull"
  /\ pc' = "close"
  /\ UNCHANGED <<config, jc, auth_done, private_encoding, auto_serialize, get_k,
                 get_v, context, stack, pull, ret, err, trace, nreads, nemits,
                 nrecords>>

\* A context.values that steps the protocol iterator on every request,
\* before it hands over the item it already holds.
ReducerNextValueReadsAhead ==
  /\ pc = "reduce"
  /\ ~Top.gen_done
  /\ pc' = "next"
  /\ UNCHANGED <<stack, trace>>
  /\ UNCHANGED <<config, jc, auth_done, private_encoding, auto_serialize, get_k,
                 get_v, context, pull, ret, err, nreads, nemits, nrecords>>

\* The reducer takes the next element of context.values: the group's
\* pending item if there is one, else one step of the protocol iterator.
ReducerNextValue ==
  /\ pc = "reduce"
  /\ ~Top.gen_done
  /\ IF Top.currvalue.cmd = None
       THEN /\ pc' = "next"
            /\ UNCHANGED <<stack, trace>>
     ELSE IF Top.currkey = Top.tgtkey
       THEN /\ stack' = SetTop([Top EXCEPT !.currvalue = NoItem])
            /\ trace' = Append(trace, Call("value", Top.currvalue.val, None))
            /\ UNCHANGED pc
     ELSE /\ stack' = SetTop([Top EXCEPT !.gen_done = TRUE])
          /\ trace' = Append(trace, Call("end", None, None))
          /\ UNCHANGED pc
  /\ UNCHANGED <<config, jc, auth_done, private_encoding, auto_serialize, get_k,
                 get_v, context, pull, ret, err, nreads, nemits, nrecords>>

\* The reducer's reduce calls context.emit.
ReducerEmit(k, v, limit) ==
  /\ pc = "reduce"
  /\ nemits < limit
  /\ nemits' = nemits + 1
  /\ trace' = trace \o emit(k, v)
  /\ UNCHANGED <<config, jc, auth_done, private_encoding, auto_serialize, get_k,
                 get_v, context, stack, pc, pull, ret, err, nreads, nrecords>>

\* A reduce whose return is followed by the loop body for the same group
\* again: the groupby does not move on to the next group.
ReducerReturnStaysInGroup ==
  /\ pc = "reduce"
  /\ stack' = SetTop([Top EXCEPT !.phase = "outer"])
  /\ pc' = "group"
  /\ UNCHANGED <<config, jc, auth_done, private_encoding, auto_serialize, get_k,
                 get_v, context, pull, ret, err, trace, nreads, nemits, nrecords>>

\* reduce returns; the for statement asks the groupby for the next group:
\* it steps the iterator while the key is still the finished group's.
ReducerReturn ==
  /\ pc = "reduce"
  /\ LET f == [Top EXCEPT !.phase = "outer"]
     IN IF SkipsOn(f)
          THEN stack' = SetTop(f) /\ pc' = "next"
          ELSE stack' = SetTop([f EXCEPT !.tgtkey = f.currkey]) /\ pc' = "group"
  /\ UNCHANGED <<config, jc, auth_done, private_encoding, auto_serialize, get_k,
                 get_v, context, pull, ret, err, trace, nreads, nemits, nrecords>>

\* reduce raises.
ReducerRaise ==
  /\ pc = "reduce"
  /\ Raise("reduce error")
  /\ UNCHANGED <<config, jc, auth_done, private_encoding, auto_serialize, get_k,
                 get_v, context, stack, trace, nreads, nemits, nrecords>>

(* ----------------------------- api.JobConf ------------------------------ *)

\* Strings are sequences of characters.  str.lower on the letters in use.
LowerChar(c) ==
  CASE c = "T" -> "t" [] c = "R" -> "r" [] c = "U" -> "u" [] c = "E" -> "e"
    [] c = "F" -> "f" [] c = "A" -> "a" [] c = "L" -> "l" [] c = "S" -> "s"
    [] c = "Y" -> "y" [] OTHER -> c

\* A lower() that leaves the case as it is.
keepCase(s) == s

lower(s) == [i \in 1..Len(s) |-> LowerChar(s[i])]

\* str.strip(): leading and trailing whitespace removed.
Whitespace == {" "}
RECURSIVE lstrip(_), rstrip(_)
lstrip(s) == IF s # <<>> /\ Head(s) \in Whitespace THEN lstrip(Tail(s)) ELSE s
rstrip(s) ==
  IF s # <<>> /\ s[Len(s)] \in Whitespace THEN rstrip(SubSeq(s, 1, Len(s) - 1)) ELSE s
strip(s) == rstrip(lstrip(s))

\* pydoop.utils.conversion_tables: legacy (MRv1) name to current (MRv2)
\* name, and back.  The module is not among the files at hand; two pairs of
\* Hadoop's table stand for it, the two tables inverse to each other.
mrv1_to_mrv2 ==
  ("mapred.job.name" :> "mapreduce.job.name")
    @@ ("hadoop.pipes.java.recordwriter" :> "mapreduce.pipes.isjavarecordwriter")
mrv2_to_mrv1 ==
  ("mapreduce.job.name" :> "mapred.job.name")
    @@ ("mapreduce.pipes.isjavarecordwriter" :> "hadoop.pipes.java.recordwriter")

\* dict(zip(values[::2], values[1::2])): a key given twice keeps the value
\* of its last pair.
ZipDict(values) ==
  LET n == Len(values) \div 2
      LastOf(k) == CHOOSE i \in 1..n :
                     /\ values[2 * i - 1] = k
                     /\ \A j \in (i + 1)..n : values[2 * j - 1] # k
  IN [k \in {values[2 * i - 1] : i \in 1..n} |-> values[2 * LastOf(k)]]

\* A mirroring that writes the other name of every key, present or not.
mirrorOverwrites(d) ==
  LET Others == {mrv1_to_mrv2[k] : k \in DOMAIN d \cap DOMAIN mrv1_to_mrv2}
                  \cup {mrv2_to_mrv1[k] : k \in DOMAIN d \cap DOMAIN mrv2_to_mrv1}
      From(x) == {k \in DOMAIN d :
                    \/ k \in DOMAIN mrv1_to_mrv2 /\ mrv1_to_mrv2[k] = x
                    \/ k \in DOMAIN mrv2_to_mrv1 /\ mrv2_to_mrv1[k] = x}
  IN [k \in DOMAIN d \cup Others |->
        IF k \in Others THEN d[CHOOSE f \in From(k) : TRUE] ELSE d[k]]

\* A mirroring that fills in nothing.
noMirror(d) == d

\* JobConf.__mirror_conf_across_versions: ext maps the other name of every
\* key of a table to that key's value, unless the other name is a key
\* already; then self.update(ext).  With tables inverse to each other no
\* two keys have the same other name.
mirror_conf_across_versions(d) ==
  LET FromV1(x) == {k \in DOMAIN d : k \in DOMAIN mrv1_to_mrv2 /\ mrv1_to_mrv2[k] = x}
      FromV2(x) == {k \in DOMAIN d : k \in DOMAIN mrv2_to_mrv1 /\ mrv2_to_mrv1[k] = x}
      Others == {mrv1_to_mrv2[k] : k \in DOMAIN d \cap DOMAIN mrv1_to_mrv2}
                  \cup {mrv2_to_mrv1[k] : k \in DOMAIN d \cap DOMAIN mrv2_to_mrv1}
      ext == [x \in Others \ DOMAIN d |-> d[CHOOSE k \in FromV1(x) \cup FromV2(x) : TRUE]]
  IN [k \in DOMAIN d \cup DOMAIN ext |-> IF k \in DOMAIN ext THEN ext[k] ELSE d[k]]

\* A constructor that does not look at the length of the list.
JobConfAnyLength(values) ==
  [err |-> "", conf |-> mirror_conf_across_versions(ZipDict(values))]

\* JobConf.__init__(values): the error it raises ("" if none) and the dict.
JobConf(values) ==
  IF Len(values) % 2 = 1
    THEN [err |-> "PydoopError: JobConf.__init__: len(values) should be even",
          conf |-> <<>>]
    ELSE [err |-> "", conf |-> mirror_conf_across_versions(ZipDict(values))]

\* The orders in which a dict may hand out its keys.  JobConf subclasses
\* dict: CPython from 3.7 on iterates in insertion order, the Python 2 that
\* pipes.py keeps compatible with (and CPython up to 3.5) in an order of
\* its own.
KeyOrders(conf) ==
  LET n == Cardinality(DOMAIN conf)
  IN {o \in [1..n -> DOMAIN conf] : \A i, j \in 1..n : i # j => o[i] # o[j]}

\* JobConf.get(key, default) as the getters call it: two arguments, so
\* dict.get.
get(conf, key, default) ==
  IF key \in DOMAIN conf THEN PyStr(conf[key]) ELSE default

\* JobConf.get_bool(key, default=None)
get_bool(conf, key, default) ==
  LET v == get(conf, key, default)
  IN IF v # default
       THEN LET s == lower(strip(v.v))
            IN IF s = <<"t", "r", "u", "e">> THEN PyBool(TRUE)
               ELSE IF s = <<"f", "a", "l", "s", "e">> THEN PyBool(FALSE)
               ELSE IF default = PyNone
                 THEN PyRaise("RuntimeError: invalid bool string")
               ELSE default
       ELSE v

\* JobConf(values) is called, outside the engine; order is the order in
\* which the new dict hands out its keys.
NewJobConf(values, order) ==
  /\ jc = NoJobConf
  /\ order \in KeyOrders(JobConf(values).conf)
  /\ jc' = [NoJobConf EXCEPT !.values = values,
                             !.err = JobConf(values).err,
                             !.built = (JobConf(values).err = ""),
                             !.conf = JobConf(values).conf,
                             !.order = order]
  /\ UNCHANGED <<config, auth_done, private_encoding, auto_serialize, get_k,
                 get_v, context, stack, pc, pull, ret, err, trace, nreads,
                 nemits, nrecords>>

\* jc.get_bool(key, default) is called on the JobConf built.
GetBool(key, default) ==
  /\ jc.built
  /\ jc.call = <<>>
  /\ jc' = [jc EXCEPT !.call = <<key, default>>,
                      !.result = get_bool(jc.conf, key, default)]
  /\ UNCHANGED <<config, auth_done, private_encoding, auto_serialize, get_k,
                 get_v, context, stack, pc, pull, ret, err, trace, nreads,
                 nemits, nrecords>>

(* ---------------------------- specifications --------------------------- *)

\* Records a record reader yields, and the pairs a user component emits.
Records == {<<1, 2>>, <<2, 1>>}
EmitPairs == {<<1, 2>>, <<2, 1>>}

\* The steps that read no command and call no user code: returns to the
\* caller and the bodies of the RUN_REDUCE loop.
Returns ==
  \/ ReturnToRunTask
  \/ ReturnToGroupby
  \/ ReturnToGrouper
  \/ GroupReduceKey
  \/ GroupReduceValue
  \/ GroupClose

\* An opcode that is no command of the protocol, and an uplink opcode.
Unknown == {11, OUTPUT}

\* The keyword arguments run_task passes when none is given.
DefaultKwargs ==
  [raw_k |-> FALSE, raw_v |-> FALSE, private_encoding |-> TRUE, auto_serialize |-> TRUE]

(* The whole protocol: every opcode, few field values, short runs, no     *)
(* shared secret, every factory.                                          *)
Init ==
  \E f \in Factories : InitWith(None, f, DefaultKwargs)

Next ==
  \/ \E cmd \in (Downlink \cup Unknown) \ {AUTHENTICATION_REQ} : Unauthenticated(cmd, MaxCmds)
  \/ AuthenticationReq(0, 0, MaxCmds)
  \/ \E v \in {0, 1} : Start(v, MaxCmds)
  \/ \E n \in {1, 2} : SetJobConf(n, MaxCmds)
  \/ \E nred \in {0, 2}, piped_input \in BOOLEAN : RunMap(nred, piped_input, MaxCmds)
  \/ SetInputTypes("org.apache.hadoop.io.Text", "other", MaxCmds)
  \/ MapItem(dumps(1), dumps(2), MaxCmds)
  \/ \E piped_output \in BOOLEAN : RunReduce(piped_output, MaxCmds)
  \/ ReduceKey(dumps(1), MaxCmds)
  \/ ReduceValue(dumps(2), MaxCmds)
  \/ Abort(MaxCmds)
  \/ Close(MaxCmds)
  \/ \E cmd \in Unknown : UnknownCommand(cmd, MaxCmds)
  \/ Returns
  \/ \E failing \in 0..4 : ContextClose(failing)
  \/ MapperEmit(1, 2, MaxEmits)
  \/ MapperReturn
  \/ MapperRaise
  \/ RecordReaderNext(1, 2, MaxRecords)
  \/ RecordReaderExhausted
  \/ ReducerNextValue
  \/ ReducerEmit(1, 2, MaxEmits)
  \/ ReducerReturn
  \/ ReducerRaise

Spec == Init /\ [][Next]_vars

(* Authentication: every digest and challenge, with and without a secret. *)
InitAuth ==
  \E pw \in {None} \cup Secrets :
    InitWith(pw, [rclass |-> FALSE, pclass |-> FALSE, rwclass |-> FALSE, rrclass |-> FALSE],
             DefaultKwargs)

NextAuth ==
  \/ \E cmd \in (Downlink \cup Unknown) \ {AUTHENTICATION_REQ} :
       Unauthenticated(cmd, MaxAuthCmds)
  \/ \E digest \in Digests, challenge \in Digests :
       AuthenticationReq(digest, challenge, MaxAuthCmds)
  \/ \E v \in {0, 1} : Start(v, MaxAuthCmds)
  \/ Abort(MaxAuthCmds)
  \/ \E cmd \in Unknown : UnknownCommand(cmd, MaxAuthCmds)
  \/ ReturnToRunTask

SpecAuth == InitAuth /\ [][NextAuth]_vars

(* Map tasks: the host authenticates once, then sends RUN_MAP with         *)
(* numReduces >= 1, MAP_ITEM and CLOSE; the mapper emits; no reducer and   *)
(* no record writer class.                                                 *)
InitMap ==
  \E p \in BOOLEAN, rr \in BOOLEAN, pe \in BOOLEAN, as \in BOOLEAN :
    InitWith(None, [rclass |-> FALSE, pclass |-> p, rwclass |-> FALSE, rrclass |-> rr],
             [DefaultKwargs EXCEPT !.private_encoding = pe, !.auto_serialize = as])

NextMap ==
  \/ ~auth_done /\ AuthenticationReq(0, 0, MaxMapCmds)
  \/ \E nred \in {1, 2}, piped_input \in BOOLEAN : RunMap(nred, piped_input, MaxMapCmds)
  \/ \E k \in Keys : MapItem(k, 3 - k, MaxMapCmds)
  \/ Close(MaxMapCmds)
  \/ ReturnToRunTask
  \/ \E failing \in 0..4 : ContextClose(failing)
  \/ \E e \in EmitPairs : MapperEmit(e[1], e[2], MaxMapEmits)
  \/ MapperReturn
  \/ MapperRaise
  \/ \E r \in Records : RecordReaderNext(r[1], r[2], MaxMapRecords)
  \/ RecordReaderExhausted

SpecMap == InitMap /\ [][NextMap]_vars

(* Reduce tasks: the host authenticates, sends RUN_REDUCE once, and the    *)
(* reduce commands and CLOSE after it; keys and values arrive pickled; a   *)
(* reducer class is supplied and no record writer class; the reducer       *)
(* reads values, returns or raises, and emits nothing.                     *)
InitReduce ==
  InitWith(None, [rclass |-> TRUE, pclass |-> FALSE, rwclass |-> FALSE, rrclass |-> FALSE],
           DefaultKwargs)

NextReduce ==
  \/ ~auth_done /\ AuthenticationReq(0, 0, MaxReduceCmds)
  \/ stack = <<>> /\ \E piped_output \in BOOLEAN : RunReduce(piped_output, MaxReduceCmds)
  \/ stack # <<>> /\ \E k \in Keys : ReduceKey(dumps(k), MaxReduceCmds)
  \/ stack # <<>> /\ \E v \in Keys : ReduceValue(dumps(v), MaxReduceCmds)
  \/ stack # <<>> /\ Close(MaxReduceCmds)
  \/ Returns
  \/ \E failing \in 0..4 : ContextClose(failing)
  \/ ReducerNextValue
  \/ ReducerReturn
  \/ ReducerRaise

SpecReduce == InitReduce /\ [][NextReduce]_vars

(* Aborted tasks: the host authenticates, starts a host-driven map task or *)
(* a reduce task, feeds it, and may send ABORT at any point.               *)
InitAbort ==
  InitWith(None, [rclass |-> TRUE, pclass |-> FALSE, rwclass |-> FALSE, rrclass |-> FALSE],
           DefaultKwargs)

NextAbort ==
  \/ Unauthenticated(ABORT, MaxAbortCmds)
  \/ ~auth_done /\ AuthenticationReq(0, 0, MaxAbortCmds)
  \/ stack = <<>> /\ ~context.mapper /\ RunMap(2, TRUE, MaxAbortCmds)
  \/ context.mapper /\ MapItem(dumps(1), dumps(2), MaxAbortCmds)
  \/ stack = <<>> /\ ~context.mapper /\ RunReduce(TRUE, MaxAbortCmds)
  \/ stack # <<>> /\ ReduceKey(dumps(1), MaxAbortCmds)
  \/ stack # <<>> /\ \E v \in Keys : ReduceValue(dumps(v), MaxAbortCmds)
  \/ Abort(MaxAbortCmds)
  \/ Close(MaxAbortCmds)
  \/ Returns
  \/ \E failing \in 0..4 : ContextClose(failing)
  \/ MapperReturn
  \/ MapperRaise
  \/ ReducerNextValue
  \/ ReducerReturn
  \/ ReducerRaise

SpecAbort == InitAbort /\ [][NextAbort]_vars

(* Commands in and out of sequence: the host authenticates once, may start *)
(* a host-driven map task or a reduce task, and sends START, CLOSE, the    *)
(* reduce commands and opcodes that are no downlink command at any point.  *)
InitCommands ==
  InitWith(None, [rclass |-> TRUE, pclass |-> FALSE, rwclass |-> FALSE, rrclass |-> FALSE],
           DefaultKwargs)

NextCommands ==
  \/ ~auth_done /\ AuthenticationReq(0, 0, MaxCommands)
  \/ \E v \in {0, 1, 2} : Start(v, MaxCommands)
  \/ stack = <<>> /\ ~context.mapper /\ RunMap(2, TRUE, MaxCommands)
  \/ context.mapper /\ MapItem(dumps(1), dumps(2), MaxCommands)
  \/ stack = <<>> /\ RunReduce(TRUE, MaxCommands)
  \/ ReduceKey(dumps(1), MaxCommands)
  \/ ReduceValue(dumps(2), MaxCommands)
  \/ Close(MaxCommands)
  \/ \E cmd \in {11} \cup Uplink : UnknownCommand(cmd, MaxCommands)
  \/ Returns
  \/ \E failing \in 0..4 : ContextClose(failing)
  \/ MapperReturn
  \/ MapperRaise
  \/ ReducerNextValue
  \/ ReducerReturn
  \/ ReducerRaise

SpecCommands == InitCommands /\ [][NextCommands]_vars

(* Output encoding: every configured pair of the opaque and auto-serialize *)
(* modes, with and without a partitioner class, no record writer class;   *)
(* the host authenticates once and runs host-driven map tasks (map-only   *)
(* ones too) and reduce tasks in any order; mapper and reducer emit.      *)
InitEmit ==
  \E p \in BOOLEAN, pe \in BOOLEAN, as \in BOOLEAN :
    InitWith(None, [rclass |-> TRUE, pclass |-> p, rwclass |-> FALSE, rrclass |-> FALSE],
             [DefaultKwargs EXCEPT !.private_encoding = pe, !.auto_serialize = as])

NextEmit ==
  \/ ~auth_done /\ AuthenticationReq(0, 0, MaxEmitCmds)
  \/ \E nred \in {0, 2} : RunMap(nred, TRUE, MaxEmitCmds)
  \/ context.mapper /\ MapItem(1, 2, MaxEmitCmds)
  \/ stack = <<>> /\ RunReduce(TRUE, MaxEmitCmds)
  \/ stack # <<>> /\ ReduceKey(dumps(1), MaxEmitCmds)
  \/ stack # <<>> /\ ReduceValue(dumps(2), MaxEmitCmds)
  \/ Close(MaxEmitCmds)
  \/ Returns
  \/ ContextClose(0)
  \/ \E e \in EmitPairs : MapperEmit(e[1], e[2], MaxEmits)
  \/ MapperReturn
  \/ ReducerNextValue
  \/ \E e \in EmitPairs : ReducerEmit(e[1], e[2], MaxEmits)
  \/ ReducerReturn

SpecEmit == InitEmit /\ [][NextEmit]_vars

(* Input types: the host authenticates once, starts a host-driven map     *)
(* task, and sends SET_INPUT_TYPES with every pair of type names and       *)
(* MAP_ITEM in any order; raw keys and raw values configured or not.       *)
TypeNames == {"org.apache.hadoop.io.LongWritable", "org.apache.hadoop.io.Text", "other"}

InitInputTypes ==
  \E rk \in BOOLEAN, rv \in BOOLEAN :
    InitWith(None, [rclass |-> FALSE, pclass |-> FALSE, rwclass |-> FALSE, rrclass |-> FALSE],
             [DefaultKwargs EXCEPT !.raw_k = rk, !.raw_v = rv])

NextInputTypes ==
  \/ ~auth_done /\ AuthenticationReq(0, 0, MaxTypeCmds)
  \/ ~context.mapper /\ RunMap(2, TRUE, MaxTypeCmds)
  \/ \E kt \in TypeNames, vt \in TypeNames : SetInputTypes(kt, vt, MaxTypeCmds)
  \/ context.mapper /\ MapItem(1, 2, MaxTypeCmds)
  \/ MapperReturn
  \/ ReturnToRunTask

SpecInputTypes == InitInputTypes /\ [][NextInputTypes]_vars

(* Job configurations: a flat list of at most MaxItems items is handed to  *)
(* JobConf directly, and get_bool is called on the result; or the host     *)
(* authenticates and sends SET_JOB_CONF announcing some number of items.   *)
JobKeys ==
  {"mapred.job.name", "mapreduce.job.name", "hadoop.pipes.java.recordwriter",
   "mapreduce.pipes.isjavarecordwriter", "pydoop.j", "pydoop.k"}

JobValues ==
  {<<"t", "r", "u", "e">>, <<"T", "R", "U", "E">>, <<"T", "r", "u", "e">>,
   <<"f", "a", "l", "s", "e">>, <<"F", "A", "L", "S", "E">>,
   <<" ", "t", "r", "u", "e", " ">>, <<"y", "e", "s">>, <<>>}

\* [k1, v1, k2, v2, ...] for a sequence of pairs, and the lists of at most
\* MaxItems items: those, and those cut short by one item.
Flat(ps) == [i \in 1..(2 * Len(ps)) |-> ps[(i + 1) \div 2][2 - (i % 2)]]
FlatLists ==
  LET PairSeqs == UNION {[1..n -> JobKeys \X JobValues] : n \in 0..((MaxItems + 1) \div 2)}
      All == {Flat(ps) : ps \in PairSeqs}
               \cup {SubSeq(Flat(ps), 1, 2 * Len(ps) - 1) : ps \in PairSeqs \ {<<>>}}
  IN {l \in All : Len(l) <= MaxItems}

Defaults == {PyNone, PyBool(TRUE), PyBool(FALSE)}

InitJobConf ==
  InitWith(None, [rclass |-> FALSE, pclass |-> FALSE, rwclass |-> FALSE, rrclass |-> FALSE],
           DefaultKwargs)

NextJobConf ==
  \/ jc = NoJobConf /\ nreads = 0
       /\ \E values \in FlatLists :
            \E order \in KeyOrders(JobConf(values).conf) : NewJobConf(values, order)
  \/ \E key \in JobKeys, default \in Defaults : GetBool(key, default)
  \/ jc = NoJobConf /\ ~auth_done /\ AuthenticationReq(0, 0, MaxConfCmds)
  \/ jc = NoJobConf /\ \E n \in 0..MaxItems : SetJobConf(n, MaxConfCmds)
  \/ jc = NoJobConf /\ ReturnToRunTask

SpecJobConf == InitJobConf /\ [][NextJobConf]_vars

(* ------------------------------ properties ----------------------------- *)

IsRead(e, cmd) == e[1] = "read" /\ e[2] = cmd
IsUp(e, op) == e[1] = "up" /\ e[2] = op
\* The events a step appends to the trace.
Appended == SubSeq(trace', Len(trace) + 1, Len(trace'))
\* The step reads a command.
Reads == nreads' = nreads + 1
\* The positions of the trace that satisfy P.
Positions(P(_)) == {i \in 1..Len(trace) : P(trace[i])}

\* C1: while the engine is unauthenticated, reading any command other than
\* AUTHENTICATION_REQ ends the run with an error, and the step does nothing
\* else: the context, the decoders and the writer's flags keep their values,
\* no component is created or called, nothing goes to the uplink; no step
\* follows an error.
C1_UnauthenticatedCommandIsFatal ==
  [][/\ pc # "error"
     /\ (~auth_done /\ Reads /\ ~IsRead(Appended[1], AUTHENTICATION_REQ))
          => /\ pc' = "error"
             /\ Len(Appended) = 1
             /\ Appended[1][1] = "read"
             /\ UNCHANGED <<context, auth_done, private_encoding, auto_serialize,
                            get_k, get_v, stack, nemits, nrecords>>]_vars

C1_Witness ==
  /\ pc = "error"
  /\ ~auth_done
  /\ err = "RuntimeError: received before authentication"
  /\ trace = <<ReadEv(RUN_MAP, None, None)>>

\* C2: with a shared secret S, an AUTHENTICATION_REQ(digest, challenge) is
\* accepted exactly when digest = create_digest(S, challenge).  Accepted, the
\* step writes one AUTHENTICATION_RESP carrying
\* create_digest(S, create_digest(S, challenge)) and nothing else, and the
\* engine is authenticated; otherwise the run ends with an error and nothing
\* is written.
C2_AuthAcceptedIffDigestMatches ==
  [][(password # None /\ Reads /\ IsRead(Appended[1], AUTHENTICATION_REQ))
        => LET digest == Appended[1][3]
               challenge == Appended[1][4]
               response == create_digest(password, create_digest(password, challenge))
           IN IF digest = create_digest(password, challenge)
                THEN /\ auth_done'
                     /\ pc' # "error"
                     /\ Appended = <<ReadEv(AUTHENTICATION_REQ, digest, challenge),
                                     Up(AUTHENTICATION_RESP, response, None, None)>>
                ELSE /\ pc' = "error"
                     /\ auth_done' = auth_done
                     /\ Len(Appended) = 1]_vars

C2_Witness ==
  /\ password \in Secrets
  /\ auth_done
  /\ Len(trace) = 2
  /\ IsRead(trace[1], AUTHENTICATION_REQ)
  /\ IsUp(trace[2], AUTHENTICATION_RESP)
  /\ trace[2][3] # trace[1][3]

\* C6: a read of ABORT ends the run with an error at once, wherever it is
\* read; nothing follows it: no DONE, no close of a component.
C6_AbortIsFatal ==
  \A i \in 1..Len(trace) :
    IsRead(trace[i], ABORT) =>
      /\ pc = "error"
      /\ \A j \in (i + 1)..Len(trace) : ~IsUp(trace[j], DONE) /\ trace[j][1] # "close"
      /\ i = Len(trace)

\* ABORT arrives while the reducer is pulling values.
C6_Witness ==
  /\ pc = "error"
  /\ err = "RuntimeError: received ABORT command"
  /\ stack # <<>>
  /\ Top.phase = "inner"
  /\ IsRead(trace[Len(trace)], ABORT)

\* numReduces of the RUN_MAP read last.
LastRunMapNred ==
  LET ps == Positions(LAMBDA e : IsRead(e, RUN_MAP))
      last == CHOOSE i \in ps : \A j \in ps : j <= i
  IN trace[last][3]

\* C7: in a map task with numReduces R >= 1 and no record writer, an emit
\* with a partitioner configured asks the partitioner for partition(key, R)
\* and writes one PARTITIONED_OUTPUT with that partition, and no OUTPUT; with
\* no partitioner configured it writes one plain OUTPUT.
C7_MapOutputIsPartitioned ==
  [][(nemits' = nemits + 1 /\ context.mapper /\ ~context.record_writer
        /\ LastRunMapNred >= 1)
        => LET out == Appended[Len(Appended)]
           IN /\ Appended[1][1] = "emit"
              /\ IF factory.pclass
                   THEN /\ Len(Appended) = 3
                        /\ IsUp(out, PARTITIONED_OUTPUT)
                        /\ out[3] = partition(out[4], LastRunMapNred)
                        /\ Appended[2] = Call("partition", out[4], LastRunMapNred)
                   ELSE /\ Len(Appended) = 2
                        /\ IsUp(out, OUTPUT)]_vars

C7_Witness ==
  /\ factory.pclass
  /\ context.mapper
  /\ ~context.record_writer
  /\ context.nred = 2
  /\ \E i \in 1..Len(trace) : IsUp(trace[i], PARTITIONED_OUTPUT) /\ trace[i][3] = 1

\* C8: while a record writer is active, emit(key, value) hands that key and
\* that value to the record writer and writes nothing to the uplink.
C8_RecordWriterTakesEmit ==
  [][(nemits' = nemits + 1 /\ context.record_writer)
        => /\ Len(Appended) = 2
           /\ Appended[1][1] = "emit"
           /\ Appended[2] = Call("rw_emit", Appended[1][2], Appended[1][3])]_vars

\* The mapper emits while a record writer is active.
C8_Witness ==
  /\ context.record_writer
  /\ context.mapper
  /\ private_encoding
  /\ trace[Len(trace)] = Call("rw_emit", 1, 2)

\* C9: every run of Context.close() writes exactly one DONE, after the
\* closes of the components, also when one of these raises.
C9_CloseSendsOneDone ==
  [][pc = "close"
        => /\ Len(Appended) >= 1
           /\ IsUp(Appended[Len(Appended)], DONE)
           /\ \A i \in 1..(Len(Appended) - 1) : Appended[i][1] = "close"
           /\ pc' # "close"]_vars

\* A component's close raised, and DONE went out after it.
C9_Witness ==
  /\ Len(trace) >= 2
  /\ trace[Len(trace) - 1][1] = "close"
  /\ trace[Len(trace) - 1][3] = 1
  /\ IsUp(trace[Len(trace)], DONE)

(* The reduce commands read after a RUN_REDUCE, and the reducer's calls.   *)

\* The commands read after position i of the trace, in order.
ReadsAfter(i) == SelectSeq(SubSeq(trace, i + 1, Len(trace)), LAMBDA e : e[1] = "read")
\* The j-th smallest element of a set of numbers.
NthOf(S, j) == CHOOSE x \in S : Cardinality({y \in S : y < x}) = j - 1
IsPrefix(a, b) == Len(a) <= Len(b) /\ \A k \in 1..Len(a) : a[k] = b[k]
\* R is REDUCE_KEY, REDUCE_VALUE+, REDUCE_KEY, REDUCE_VALUE+, ..., CLOSE, or
\* the beginning of such a sequence.
ReduceForm(R) ==
  /\ \A i \in 1..Len(R) : R[i][2] \in {REDUCE_KEY, REDUCE_VALUE, CLOSE}
  /\ \A i \in 1..Len(R) : R[i][2] = CLOSE => i = Len(R)
  /\ Len(R) >= 1 => R[1][2] # REDUCE_VALUE
  /\ \A i \in 1..(Len(R) - 1) : R[i][2] = REDUCE_KEY => R[i + 1][2] = REDUCE_VALUE
\* The positions of the REDUCE_KEY commands of R.
KeyPos(R) == {i \in 1..Len(R) : R[i][2] = REDUCE_KEY}
\* The values of the REDUCE_VALUE commands that follow position p of R, up
\* to the next command that is none, as the reducer is to see them.
GroupValues(R, p) ==
  LET stop == CHOOSE q \in (p + 1)..(Len(R) + 1) :
                /\ \A r \in (p + 1)..(q - 1) : R[r][2] = REDUCE_VALUE
                /\ (IF q = Len(R) + 1 THEN TRUE ELSE R[q][2] # REDUCE_VALUE)
  IN [k \in 1..(stop - p - 1) |-> Decode(get_v, R[p + k][3])]
\* The positions of the trace after i where the reducer is called.
CallPos(i) == {q \in (i + 1)..Len(trace) : trace[q][1] = "reduce"}
\* The events of the call at q: up to the next call of the reducer.
CallEvents(q) ==
  LET stop == CHOOSE t \in (q + 1)..(Len(trace) + 1) :
                /\ \A r \in (q + 1)..(t - 1) : trace[r][1] # "reduce"
                /\ (IF t = Len(trace) + 1 THEN TRUE ELSE trace[t][1] = "reduce")
  IN SubSeq(trace, q + 1, stop - 1)
\* The values context.values yielded to the call at q, in order.
CallValues(q) ==
  LET vs == SelectSeq(CallEvents(q), LAMBDA e : e[1] = "value")
  IN [k \in 1..Len(vs) |-> vs[k][2]]
\* The call at q saw context.values end.
CallEnded(q) == \E k \in 1..Len(CallEvents(q)) : CallEvents(q)[k][1] = "end"
\* The DONE commands written.
Dones == Positions(LAMBDA e : IsUp(e, DONE))
RunReduces == Positions(LAMBDA e : IsRead(e, RUN_REDUCE))

\* C4: after a RUN_REDUCE that sets up, while the commands read after it are
\* REDUCE_KEY(k1), one or more REDUCE_VALUE, REDUCE_KEY(k2), ..., CLOSE or the
\* beginning of that: the j-th call of the reducer has kj as current key;
\* the values it is given are the values that followed kj, in arrival order
\* (all of them once it has seen the sequence end); the run fails only if
\* the reducer raises; and once CLOSE has been handled the reducer has been
\* called once per key and exactly one DONE was written, after the CLOSE.
C4_ReduceGrouping ==
  \A rr \in RunReduces :
    LET R == ReadsAfter(rr)
        calls == CallPos(rr)
        keys == KeyPos(R)
    IN (ReduceForm(R) /\ setup_record_writer(trace[rr][4] = 1) = "")
         => /\ Cardinality(calls) <= Cardinality(keys)
            /\ \A j \in 1..Cardinality(calls) :
                 LET q == NthOf(calls, j)
                     p == NthOf(keys, j)
                 IN /\ trace[q][2] = Decode(get_k, R[p][3])
                    /\ IsPrefix(CallValues(q), GroupValues(R, p))
                    /\ CallEnded(q) => Len(CallValues(q)) = Len(GroupValues(R, p))
            /\ pc = "error" => err = "reduce error"
            /\ pc = "done" =>
                 /\ Cardinality(calls) = Cardinality(keys)
                 /\ Cardinality(Dones) = 1
                 /\ \A d \in Dones : \E c \in (rr + 1)..(d - 1) : IsRead(trace[c], CLOSE)
                 /\ IsUp(trace[Len(trace)], DONE)

\* Two keys with one value each, both groups read to their end, then CLOSE.
C4_Witness ==
  /\ pc = "done"
  /\ RunReduces # {}
  /\ \A rr \in RunReduces :
       /\ ReduceForm(ReadsAfter(rr))
       /\ Cardinality(CallPos(rr)) = 2
       /\ \A q \in CallPos(rr) : CallEnded(q) /\ Len(CallValues(q)) = 1
       /\ trace[NthOf(CallPos(rr), 1)][2] # trace[NthOf(CallPos(rr), 2)][2]

\* C5: when a reduce task has run to its end, the reducer has been called
\* once for every REDUCE_KEY read in the grouping loop, the j-th call with
\* the j-th key, also for a key that no REDUCE_VALUE follows.
C5_ReducerRunsForEveryKey ==
  \A rr \in RunReduces :
    LET R == ReadsAfter(rr)
        calls == CallPos(rr)
        keys == KeyPos(R)
    IN (pc = "done" /\ \A i \in 1..Len(R) : R[i][2] \in {REDUCE_KEY, REDUCE_VALUE, CLOSE})
         => /\ Cardinality(calls) = Cardinality(keys)
            /\ \A j \in 1..Cardinality(calls) :
                 trace[NthOf(calls, j)][2] = Decode(get_k, R[NthOf(keys, j)][3])

\* The RUN_MAP commands read that start the engine's own loop over a record
\* reader: pipedInput false, numReduces >= 1, a record reader class given.
PullRunMaps ==
  {i \in Positions(LAMBDA e : IsRead(e, RUN_MAP) /\ e[4] = 0 /\ e[3] >= 1) : factory.rrclass}

\* C3: after a RUN_MAP in pull mode, map is called once per record the
\* reader yields, in order, with that record's key and value; no command is
\* read after that RUN_MAP; at most one DONE is written, and exactly one
\* when the run has ended without an error.
C3_PullModeMapsThenDone ==
  \A i \in PullRunMaps :
    LET after == SubSeq(trace, i + 1, Len(trace))
        recs == SelectSeq(after, LAMBDA e : e[1] = "record")
        maps == SelectSeq(after, LAMBDA e : e[1] = "map")
        dones == {d \in Dones : d > i}
    IN /\ Len(maps) = Len(recs)
       /\ \A k \in 1..Len(recs) : maps[k][2] = recs[k][2] /\ maps[k][3] = recs[k][3]
       /\ \A k \in 1..Len(after) : after[k][1] # "read"
       /\ Cardinality(dones) <= 1
       /\ pc = "done" => Cardinality(dones) = 1

\* C10: at most one DONE is written in a run, and after it no command is
\* read and nothing is written to the uplink.
C10_NothingAfterDone ==
  /\ Cardinality(Dones) <= 1
  /\ \A d \in Dones : \A j \in (d + 1)..Len(trace) : trace[j][1] \notin {"read", "up"}

\* The commands read before position i of the trace include a RUN_REDUCE.
RunReduceBefore(i) == \E j \in 1..(i - 1) : IsRead(trace[j], RUN_REDUCE)

\* C11: a REDUCE_KEY or REDUCE_VALUE read by an authenticated engine before
\* any RUN_REDUCE, that is outside the grouping loop, ends the run with an
\* error: it is the last command read.
C11_ReduceCommandOutsideLoopIsFatal ==
  \A i \in 1..Len(trace) :
    ((IsRead(trace[i], REDUCE_KEY) \/ IsRead(trace[i], REDUCE_VALUE))
       /\ i > 1 /\ IsRead(trace[1], AUTHENTICATION_REQ)
       /\ ~RunReduceBefore(i))
      => /\ pc = "error"
         /\ i = Len(trace)

\* C12: a CLOSE read by run_task's loop (not by the grouping loop) of an
\* authenticated engine with no mapper does nothing: the step only reads the
\* command, the context and everything else the engine keeps stay as they
\* are, no component is closed and no DONE is written, and the loop goes on
\* to read the next command.
C12_CloseWithoutTaskIsNoOp ==
  [][/\ (Reads /\ IsRead(Appended[1], CLOSE) /\ auth_done /\ ~context.mapper
           /\ stack = <<>>)
          => /\ Appended = <<ReadEv(CLOSE, None, None)>>
             /\ pc' = "deliver"
             /\ ret'.kind = "item"
             /\ UNCHANGED <<context, auth_done, private_encoding, auto_serialize,
                            get_k, get_v, stack, pull, err, nemits, nrecords>>
     /\ (pc = "deliver" /\ stack = <<>> /\ ret.kind = "item")
          => /\ pc' = "next"
             /\ UNCHANGED <<context, trace>>]_vars

\* Two CLOSE commands were read one after the other, and the loop is ready
\* to read again.
C12_Witness ==
  /\ pc = "next"
  /\ Len(trace) = 3
  /\ IsRead(trace[2], CLOSE)
  /\ IsRead(trace[3], CLOSE)
  /\ context = Context0

\* C13: a read, by an authenticated engine, of an opcode that is none of the
\* eleven downlink opcodes (the uplink opcodes 50..57 included) ends the run
\* with the unknown-command error at once, wherever it is read: it is the
\* last event, so no DONE and no close of a component follows it.
C13_UnknownOpcodeIsFatal ==
  \A i \in 1..Len(trace) :
    (trace[i][1] = "read" /\ trace[i][2] \notin Downlink /\ i > 1)
      => /\ pc = "error"
         /\ err = "RuntimeError: unknown command"
         /\ i = Len(trace)

\* The opcode of DONE arrives while the reducer is pulling values.
C13_Witness ==
  /\ pc = "error"
  /\ stack # <<>>
  /\ Top.phase = "inner"
  /\ context.reducer
  /\ IsRead(trace[Len(trace)], DONE)

\* C14 as stated: an authenticated START(version) ends the run with an error
\* if and only if version is not PROTOCOL_VERSION; after START(0) the engine
\* goes on to the next command.
C14_StartFatalIffVersionDiffers ==
  \A i \in 2..Len(trace) :
    IsRead(trace[i], START) =>
      ((pc = "error" /\ i = Len(trace)) <=> trace[i][3] # PROTOCOL_VERSION)

\* C14: an authenticated START(version) only reads the command: the context
\* and the rest of the engine's state keep their values and nothing is
\* written.  With version # PROTOCOL_VERSION it raises the protocol-id
\* error; with version 0 it returns None.  run_task's loop takes that None
\* and reads the next command; the groupby of a RUN_REDUCE handler, stepped
\* by the grouping loop or by the reducer's read of values, fails on it.
C14_StartChecksVersion ==
  [][/\ (Reads /\ IsRead(Appended[1], START) /\ auth_done)
          => /\ Appended = <<ReadEv(START, Appended[1][3], None)>>
             /\ UNCHANGED <<context, auth_done, private_encoding, auto_serialize,
                            get_k, get_v, stack, pull, nemits, nrecords>>
             /\ IF Appended[1][3] # PROTOCOL_VERSION
                  THEN pc' = "error" /\ err' = "RuntimeError: Unknown protocol id"
                  ELSE pc' = "deliver" /\ ret'.kind = "none" /\ err' = err
     /\ (pc = "deliver" /\ trace # <<>> /\ IsRead(trace[Len(trace)], START))
          => /\ UNCHANGED <<context, trace>>
             /\ IF stack = <<>>
                  THEN pc' = "next"
                  ELSE /\ pc' = "error"
                       /\ err' = "TypeError: 'NoneType' object is not subscriptable"]_vars

\* START(0) was read by run_task's loop, which is ready to read again.
C14_Witness ==
  /\ pc = "next"
  /\ auth_done
  /\ stack = <<>>
  /\ trace[Len(trace)] = ReadEv(START, PROTOCOL_VERSION, None)

\* C15: an authenticated SET_JOB_CONF carrying an even number of items
\* completes without an error and leaves a Job Configuration (a JobConf, not
\* the dict of Context.__init__) in the context.
C15_SetJobConfBuildsJobConf ==
  \A i \in 2..Len(trace) :
    (IsRead(trace[i], SET_JOB_CONF) /\ trace[i][3] % 2 = 0)
      => /\ ~(pc = "error" /\ i = Len(trace))
         /\ context.job_conf = "JobConf"

\* C16: a RUN_MAP for which a record reader was created and pipedInput is
\* true, or no reader was created and pipedInput is false, ends the run with
\* an error right after the reader's creation: no mapper is created for it,
\* map is not called and no DONE is written after it.  With exactly one of
\* the two, and numReduces >= 1, the mapper is created.
C16_ReaderXorPipedInput ==
  \A i \in 2..Len(trace) :
    IsRead(trace[i], RUN_MAP) =>
      IF factory.rrclass = (trace[i][4] = 1)
        THEN /\ pc = "error"
             /\ err = IF factory.rrclass
                        THEN "RuntimeError: record reader defined when not needed"
                        ELSE "RuntimeError: record reader not defined"
             /\ Len(trace) = i + 1
             /\ trace[i + 1] = Call("create_record_reader", None, None)
        ELSE trace[i][3] >= 1 =>
               /\ Len(trace) >= i + 2
               /\ trace[i + 2] = Call("create_mapper", None, None)

\* A host-driven map task has mapped a record, and a second RUN_MAP without
\* pipedInput and without a record reader ended the run.
C16_Witness ==
  /\ pc = "error"
  /\ err = "RuntimeError: record reader not defined"
  /\ \E j \in 1..Len(trace) : trace[j][1] = "map"
  /\ context.mapper

\* The task set up by the command read at position i did not end in that
\* command's own handler.
Proceeds(i, n) == ~(pc = "error" /\ Len(trace) = i + n)

\* C17: a RUN_REDUCE proceeds exactly when one of {record writer created,
\* pipedOutput} holds, and a map-only RUN_MAP (numReduces < 1) that passed
\* the reader check proceeds exactly when one of {record writer created,
\* job configuration flag for a host record writer} holds; no job
\* configuration can have been stored, so the flag is unset.  Proceeding, the
\* map-only task has its mapper.
C17_WriterXorPipedOutput ==
  \A i \in 2..Len(trace) :
    /\ IsRead(trace[i], RUN_REDUCE)
         => (Proceeds(i, 2) <=> (factory.rwclass # (trace[i][4] = 1)))
    /\ (IsRead(trace[i], RUN_MAP) /\ trace[i][3] < 1
          /\ factory.rrclass # (trace[i][4] = 1))
         => /\ Proceeds(i, 1) <=> factory.rwclass
            /\ Proceeds(i, 1) => context.mapper

\* A RUN_MAP or RUN_REDUCE has been read.
Dispatched == \E i \in 1..Len(trace) : IsRead(trace[i], RUN_MAP) \/ IsRead(trace[i], RUN_REDUCE)

\* C18: once a RUN_MAP or RUN_REDUCE has been dispatched without an error,
\* and the factory has a reducer class, exactly one of the context's mapper
\* and reducer is active.
C18_MapperXorReducer ==
  (Dispatched /\ pc # "error" /\ factory.rclass)
    => (context.mapper # context.reducer)

Instantiates(name) ==
  \/ name = "create_mapper"
  \/ name = "create_reducer" /\ factory.rclass
  \/ name = "create_partitioner" /\ factory.pclass
  \/ name = "create_record_reader" /\ factory.rrclass
  \/ name = "create_record_writer" /\ factory.rwclass

\* C20: the factory instantiates each kind of component (mapper, reducer,
\* partitioner, record reader, record writer) at most once in a run, and
\* only after a RUN_MAP or RUN_REDUCE has been read.
C20_ComponentsCreatedOnce ==
  \A i \in 1..Len(trace) :
    Instantiates(trace[i][1])
      => /\ \A j \in 1..Len(trace) : trace[j][1] = trace[i][1] => j = i
         /\ \E h \in 1..(i - 1) : IsRead(trace[h], RUN_MAP) \/ IsRead(trace[h], RUN_REDUCE)

(* Job configurations.                                                     *)

\* The keys of the flat list a JobConf was built from, in the order of their
\* first occurrence.
GivenKeys(values) == {values[2 * i - 1] : i \in 1..(Len(values) \div 2)}
FirstKeys(values) ==
  LET idx == {i \in 1..(Len(values) \div 2) :
                \A j \in 1..(i - 1) : values[2 * j - 1] # values[2 * i - 1]}
  IN [m \in 1..Cardinality(idx) |-> values[2 * NthOf(idx, m) - 1]]
\* A name of one of the two naming schemes.
Aliased(k) == k \in DOMAIN mrv1_to_mrv2 \cup DOMAIN mrv2_to_mrv1
\* The pairs of the list hold in the mapping: every key has the value of the
\* last pair that gives it (of its only pair, when the keys are distinct).
PairsHold(values, conf) ==
  \A i \in 1..(Len(values) \div 2) :
    (\A j \in (i + 1)..(Len(values) \div 2) : values[2 * j - 1] # values[2 * i - 1])
      => /\ values[2 * i - 1] \in DOMAIN conf
         /\ conf[values[2 * i - 1]] = values[2 * i]

\* C21: a JobConf built from an even-length flat list holds the list's pairs,
\* has no other key when no key of the list is a legacy or current alias
\* name, and hands out its keys in the order of their first occurrence in
\* the list.
C21_JobConfRoundTrip ==
  jc.built =>
    /\ PairsHold(jc.values, jc.conf)
    /\ (\A k \in GivenKeys(jc.values) : ~Aliased(k))
         => /\ DOMAIN jc.conf = GivenKeys(jc.values)
            /\ jc.order = FirstKeys(jc.values)

\* C22: for every pair (legacy name, current name) of the tables, a JobConf
\* built from a list that gives only one of the two names has both names as
\* keys, with the value the list gives for the one.
C22_KeyMirroring ==
  jc.built =>
    \A old \in DOMAIN mrv1_to_mrv2 :
      LET new == mrv1_to_mrv2[old]
          given == GivenKeys(jc.values) \cap {old, new}
      IN Cardinality(given) = 1
           => /\ {old, new} \subseteq DOMAIN jc.conf
              /\ jc.conf[old] = jc.conf[new]
              /\ PairsHold(jc.values, jc.conf)

\* The list gives the legacy name of one pair and the current name of the
\* other, with different values.
C22_Witness ==
  /\ jc.built
  /\ GivenKeys(jc.values) = {"mapred.job.name", "mapreduce.pipes.isjavarecordwriter"}
  /\ jc.conf["mapreduce.job.name"] = <<"y", "e", "s">>
  /\ jc.conf["hadoop.pipes.java.recordwriter"] = <<"t", "r", "u", "e">>

\* The string true and the string false.
TrueStr == <<"t", "r", "u", "e">>
FalseStr == <<"f", "a", "l", "s", "e">>
\* s is the lower-case word w, up to the case of its letters.
IsWord(s, w) ==
  /\ Len(s) = Len(w)
  /\ \A i \in 1..Len(w) :
       \/ s[i] = w[i]
       \/ <<s[i], w[i]>> \in {<<"T", "t">>, <<"R", "r">>, <<"U", "u">>, <<"E", "e">>,
                               <<"F", "f">>, <<"A", "a">>, <<"L", "l">>, <<"S", "s">>}
\* s is the word w, up to case, with any whitespace before and after it.
IsPaddedWord(s, w) ==
  \E a \in 0..Len(s) :
    /\ a + Len(w) <= Len(s)
    /\ IsWord(SubSeq(s, a + 1, a + Len(w)), w)
    /\ \A i \in (1..a) \cup ((a + Len(w) + 1)..Len(s)) : s[i] = " "
\* What get_bool is to return for the string s under the given default, when
\* Is(s, w) says that s counts as the word w.
BoolOf(s, default, Is(_, _)) ==
  IF Is(s, TrueStr) THEN PyBool(TRUE)
  ELSE IF Is(s, FalseStr) THEN PyBool(FALSE)
  ELSE IF default = PyNone THEN PyRaise("RuntimeError: invalid bool string")
  ELSE default

C24_OddLengthIsAnError ==
  /\ (jc # NoJobConf /\ Len(jc.values) % 2 = 1)
       => /\ jc.err = "PydoopError: JobConf.__init__: len(values) should be even"
          /\ ~jc.built
          /\ jc.conf = <<>>
  /\ \A i \in 2..Len(trace) :
       (IsRead(trace[i], SET_JOB_CONF) /\ trace[i][3] % 2 = 1)
         => /\ pc = "error"
            /\ err # ""
            /\ i = Len(trace)
            /\ context = Context0

\* JobConf was called with three items.
C24_Witness ==
  /\ Len(jc.values) = 3
  /\ jc.err # ""
  /\ ~jc.built

\* C25: the engine starts unauthenticated, and once auth_done is true it is
\* true in every later state, whatever is read, a later AUTHENTICATION_REQ
\* with a wrong digest included.
C25_AuthenticationIsMonotonic ==
  /\ ~auth_done
  /\ [][auth_done => auth_done']_vars

\* After a successful authentication a second AUTHENTICATION_REQ was refused.
C25_Witness ==
  /\ auth_done
  /\ pc = "error"
  /\ err = "RuntimeError: server failed to authenticate"
  /\ Len(trace) >= 3

\* C26: with no shared secret, reading an AUTHENTICATION_REQ with any digest
\* and any challenge raises nothing, leaves the engine authenticated and
\* writes nothing to the uplink: the step only reads the command.
C26_NoSecretAcceptsAnyDigest ==
  [][(password = None /\ Reads /\ IsRead(Appended[1], AUTHENTICATION_REQ))
        => /\ auth_done'
           /\ pc' = "deliver"
           /\ err' = ""
           /\ Len(Appended) = 1
           /\ UNCHANGED <<context, stack>>]_vars

\* No secret; a digest that create_digest would not give was accepted.
C26_Witness ==
  /\ password = None
  /\ auth_done
  /\ pc = "deliver"
  /\ Len(trace) = 1
  /\ IsRead(trace[1], AUTHENTICATION_REQ)
  /\ trace[1][3] # create_digest(password, trace[1][4])

\* C27: with a shared secret S, reading an AUTHENTICATION_REQ whose digest
\* is not create_digest(S, challenge) ends the run with the authentication
\* error; the step writes nothing and does not set auth_done, so an engine
\* that was unauthenticated stays so.
C27_WrongDigestIsFatal ==
  [][(password # None /\ Reads /\ IsRead(Appended[1], AUTHENTICATION_REQ)
        /\ Appended[1][3] # create_digest(password, Appended[1][4]))
        => /\ pc' = "error"
           /\ err' = "RuntimeError: server failed to authenticate"
           /\ Len(Appended) = 1
           /\ auth_done' = auth_done
           /\ UNCHANGED <<context, stack>>]_vars

\* The first command was an AUTHENTICATION_REQ with a wrong digest.
C27_Witness ==
  /\ password \in Secrets
  /\ ~auth_done
  /\ pc = "error"
  /\ err = "RuntimeError: server failed to authenticate"
  /\ Len(trace) = 1

\* The close calls of the trace that raised.
FailedCloses == Positions(LAMBDA e : e[1] = "close" /\ e[3] = 1)

\* C29: when the close of a component raises while the task is finalized
\* (after CLOSE, or when the record reader of a pull-mode RUN_MAP is
\* exhausted), the run does not end with an error, and the protocol loop
\* is over: no command is read afterwards.
C29_TeardownErrorEndsLoopNormally ==
  \A j \in FailedCloses :
    /\ pc # "error"
    /\ \A k \in (j + 1)..Len(trace) : trace[k][1] # "read"

\* Whether the component closes number 1..4 of Context.close is present:
\* mapper, record reader, record writer, reducer.
Present(c) ==
  \/ c = 1 /\ context.mapper
  \/ c = 2 /\ context.record_reader
  \/ c = 3 /\ context.record_writer
  \/ c = 4 /\ context.reducer

\* C28: every run of Context.close calls close on the components that are
\* present, in the order mapper, record reader, record writer, reducer,
\* and on no absent one; a present component is left out only when an
\* earlier close raised; DONE is written once, after the last close call.
C28_ClosesInOrderThenDone ==
  [][pc = "close" =>
      LET new == Appended
          n == Len(new)
      IN  /\ n >= 1
          /\ new[n] = <<"up", DONE, None, None, None>>
          /\ \A i \in 1..(n - 1) :
               /\ new[i][1] = "close"
               /\ new[i][2] \in 1..4
               /\ Present(new[i][2])
          /\ \A i \in 1..(n - 2) :
               /\ new[i][2] < new[i + 1][2]
               /\ new[i][3] = 0
          /\ \A c \in 1..4 :
               Present(c) =>
                 \/ \E i \in 1..(n - 1) : new[i][2] = c
                 \/ \E i \in 1..(n - 1) : new[i][2] < c /\ new[i][3] = 1
  ]_vars

\* Mapper and record reader were closed in that order, neither raising,
\* then DONE was written; the absent reducer was skipped.
C28_Witness ==
  /\ ~context.reducer
  /\ \E j \in 1..(Len(trace) - 2) :
       /\ trace[j] = <<"close", 1, 0, None, None>>
       /\ trace[j + 1] = <<"close", 2, 0, None, None>>
       /\ trace[j + 2] = <<"up", DONE, None, None, None>>

\* The errors of the user's map and reduce.
UserErrors == {"map error", "reduce error"}

\* C30: an error raised by map (called for MAP_ITEM or by the reader loop
\* of RUN_MAP) or by reduce ends the run with that error: the step that
\* raises it is taken while map or reduce runs and calls nothing, and
\* nothing happens after it, so no component is closed and no DONE is
\* written on its account.
C30_UserErrorEndsRunWithoutClose ==
  /\ [](err \in UserErrors => pc = "error")
  /\ [][pc # "error"]_vars
  /\ [][(err' \in UserErrors /\ err \notin UserErrors) =>
          /\ pc = "map" => err' = "map error"
          /\ pc = "reduce" => err' = "reduce error"
          /\ pc \in {"map", "reduce"}
          /\ trace' = trace]_vars

\* map raised on a record of the record reader: the run ended with the
\* error of map, with no close call and no DONE before it.
C30_Witness ==
  /\ pc = "error"
  /\ err = "map error"
  /\ Len(trace) >= 2
  /\ trace[Len(trace)][1] = "map"
  /\ trace[Len(trace) - 1][1] = "record"
  /\ \A i \in 1..Len(trace) : trace[i][1] # "close" /\ ~IsUp(trace[i], DONE)

\* The map-only RUN_MAP commands of the trace: the fields were read (the
\* engine was authenticated) and numReduces < 1.
MapOnlyRunMaps ==
  Positions(LAMBDA e : IsRead(e, RUN_MAP) /\ e[3] # None /\ e[3] < 1)

\* The errors of RUN_MAP's check of the record reader (pipes.py:226-229).
ReaderCheckErrors ==
  {"RuntimeError: record reader defined when not needed",
   "RuntimeError: record reader not defined"}

\* The output commands of the trace whose key or value is a pickle.
OpaqueOutputs ==
  {i \in 1..Len(trace) :
     \/ IsUp(trace[i], OUTPUT) /\ (IsPickle(trace[i][3]) \/ IsPickle(trace[i][4]))
     \/ IsUp(trace[i], PARTITIONED_OUTPUT)
          /\ (IsPickle(trace[i][4]) \/ IsPickle(trace[i][5]))}

\* C31: once a map-only RUN_MAP (numReduces < 1) has passed the check of
\* the record reader, opaque encoding is off, whatever was configured, and
\* stays off; no output written after a map-only RUN_MAP carries an
\* opaquely encoded key or value.
C31_MapOnlyTurnsOpaqueEncodingOff ==
  \A i \in MapOnlyRunMaps :
    /\ err \notin ReaderCheckErrors => ~private_encoding
    /\ \A j \in OpaqueOutputs : j < i

\* A map-only RUN_MAP was handled by an engine configured with opaque
\* encoding, and opaque encoding is off.
C31_Witness ==
  /\ kwargs.private_encoding
  /\ ~private_encoding
  /\ MapOnlyRunMaps # {}

\* The key and the value that an output command carries.
Carried(out) ==
  IF IsUp(out, PARTITIONED_OUTPUT) THEN <<out[4], out[5]>> ELSE <<out[3], out[4]>>

\* C32: an emit(k, v) with no record writer active writes one output
\* command whose key and value are: the pickles of k and v when a mapper
\* is active and opaque encoding is on (auto-serialize plays no part);
\* otherwise their UTF-8 text when auto-serialize is on; otherwise k and v
\* themselves.
C32_EmitEncodingPrecedence ==
  [][(nemits' = nemits + 1 /\ ~context.record_writer)
        => LET k == Appended[1][2]
               v == Appended[1][3]
               out == Appended[Len(Appended)]
           IN /\ Appended[1][1] = "emit"
              /\ IsUp(out, OUTPUT) \/ IsUp(out, PARTITIONED_OUTPUT)
              /\ \A i \in 1..(Len(Appended) - 1) : Appended[i][1] # "up"
              /\ Carried(out) =
                   IF context.mapper /\ private_encoding
                     THEN <<k + PickleBase, v + PickleBase>>
                   ELSE IF auto_serialize
                     THEN <<k + Utf8Base, v + Utf8Base>>
                   ELSE <<k, v>>]_vars

\* The mapper emitted (1, 2) with both modes on and no record writer and
\* no partitioner: the output carries the two pickles.
C32_Witness ==
  /\ context.mapper
  /\ private_encoding
  /\ auto_serialize
  /\ ~context.record_writer
  /\ ~context.partitioner
  /\ Len(trace) >= 2
  /\ trace[Len(trace) - 1] = Call("emit", 1, 2)
  /\ trace[Len(trace)] = Up(OUTPUT, 1 + PickleBase, 2 + PickleBase, None)

\* The last SET_INPUT_TYPES command of the trace whose fields were read.
TypesSet == Positions(LAMBDA e : IsRead(e, SET_INPUT_TYPES) /\ e[3] # None)
LastTypesSet == CHOOSE i \in TypesSet : \A j \in TypesSet : j <= i

\* C33: after a SET_INPUT_TYPES whose key (value) type name is not a
\* built-in one, the keys (values) of MAP_ITEM are read as raw bytes,
\* whatever SET_INPUT_TYPES commands came before it.
C33_UnrecognizedTypeMeansRawBytes ==
  TypesSet # {} =>
    /\ trace[LastTypesSet][3] = 0 => get_k = "bytes"
    /\ trace[LastTypesSet][4] = 0 => get_v = "bytes"

\* The positions of the trace after the last call of reduce that hold an
\* event of the given name.
ReduceCalls == Positions(LAMBDA e : e[1] = "reduce")
LastReduceCall == CHOOSE i \in ReduceCalls : \A j \in ReduceCalls : j <= i
SinceReduce(name) == {j \in (LastReduceCall + 1)..Len(trace) : trace[j][1] = name}

\* The reads of the trace before position i, and the run of REDUCE_VALUE
\* reads that ends with the last of them.
ReadsBefore(i) == {j \in 1..(i - 1) : trace[j][1] = "read"}
ValueRunBefore(i) ==
  {j \in ReadsBefore(i) :
     \A k \in ReadsBefore(i) : k >= j => IsRead(trace[k], REDUCE_VALUE)}

\* C34: values are consumed lazily.  When reduce is called, exactly one
\* REDUCE_VALUE of its group has been read, and it was the last command
\* read.  While reduce runs, a command is read only on a request for the
\* next value made after every value read so far has been handed over:
\* at each such read the values handed to the reducer are one more than
\* the commands read since reduce was called.
C34_ValuesAreReadLazily ==
  /\ [](\A i \in ReduceCalls : Cardinality(ValueRunBefore(i)) = 1)
  /\ [][(Reads /\ stack # <<>> /\ Top.phase = "inner")
          => /\ ReduceCalls # {}
             /\ Cardinality(SinceReduce("value")) =
                  Cardinality(SinceReduce("read")) + 1]_vars

\* The reducer was called after one REDUCE_VALUE was read, took two
\* values, and the second was read after the call.
C34_Witness ==
  /\ ReduceCalls # {}
  /\ Cardinality(SinceReduce("value")) = 2
  /\ Cardinality(SinceReduce("read")) = 1
  /\ pc = "reduce"

\* The two names of the pair old belongs to are both keys of the list.
BothGiven(values, old) == {old, mrv1_to_mrv2[old]} \subseteq GivenKeys(values)

\* The value of the last pair of the list whose key is k.
GivenValue(values, k) ==
  LET n == Len(values) \div 2
      last == CHOOSE i \in 1..n :
                /\ values[2 * i - 1] = k
                /\ \A j \in (i + 1)..n : values[2 * j - 1] # k
  IN values[2 * last]

\* C35: the alias fill never overwrites.  In a JobConf built from a list,
\* every key of the list has the value the list gives it, so when both
\* names of a pair are given each keeps its own value; a key that the
\* list does not give is the other name of a key it gives, and has that
\* key's value.
C35_AliasFillNeverOverwrites ==
  jc.built =>
    /\ \A k \in GivenKeys(jc.values) :
         k \in DOMAIN jc.conf /\ jc.conf[k] = GivenValue(jc.values, k)
    /\ \A k \in DOMAIN jc.conf \ GivenKeys(jc.values) :
         \E g \in GivenKeys(jc.values) :
           /\ \/ g \in DOMAIN mrv1_to_mrv2 /\ mrv1_to_mrv2[g] = k
              \/ g \in DOMAIN mrv2_to_mrv1 /\ mrv2_to_mrv1[g] = k
           /\ jc.conf[k] = GivenValue(jc.values, g)

\* The list gives the legacy and the current name of one pair with
\* different values, and the JobConf holds both.
C35_Witness ==
  /\ jc.built
  /\ BothGiven(jc.values, "mapred.job.name")
  /\ jc.conf["mapred.job.name"] = <<"y", "e", "s">>
  /\ jc.conf["mapreduce.job.name"] = <<"t", "r", "u", "e">>

\* A command that has no place in the grouping loop and is not a
\* reader-driven RUN_MAP: START, SET_JOB_CONF, SET_INPUT_TYPES,
\* AUTHENTICATION_REQ, MAP_ITEM, or a RUN_MAP with pipedInput.
Misplaced(e) ==
  \/ \E cmd \in {START, SET_JOB_CONF, SET_INPUT_TYPES, AUTHENTICATION_REQ, MAP_ITEM} :
       IsRead(e, cmd)
  \/ IsRead(e, RUN_MAP) /\ e[4] = 1

\* The step closes no component and writes no DONE.
NoTeardown ==
  \A i \in 1..Len(Appended) : Appended[i][1] # "close" /\ ~IsUp(Appended[i], DONE)

\* C36: a misplaced command read inside the grouping loop of RUN_REDUCE
\* (by the loop or by the reducer's read of values) never lets the
\* grouping go on.  Its handler raises, or returns None, or (MAP_ITEM)
\* calls map first; map can only emit, raise, or return, and then the
\* handler returns None; the None is fatal to the groupby.  No step on
\* this way closes a component, writes DONE, or reads a command.
C36_MisplacedCommandInLoopIsFatal ==
  /\ [][(Reads /\ auth_done /\ stack # <<>> /\ Misplaced(Appended[1]))
          => /\ \/ pc' = "error"
                \/ pc' = "deliver" /\ ret'.kind = "none"
                \/ pc' = "map" /\ ~pull' /\ IsRead(Appended[1], MAP_ITEM)
             /\ stack' = stack
             /\ NoTeardown]_vars
  /\ [][(pc = "map" /\ ~pull /\ stack # <<>>)
          => /\ \/ pc' = "error"
                \/ pc' = "deliver" /\ ret'.kind = "none"
                \/ pc' = "map"
             /\ stack' = stack
             /\ ~Reads
             /\ NoTeardown]_vars
  /\ [][(pc = "deliver" /\ ret.kind = "none" /\ stack # <<>>)
          => /\ pc' = "error"
             /\ err' = "TypeError: 'NoneType' object is not subscriptable"
             /\ trace' = trace]_vars

\* SET_INPUT_TYPES was read while the reducer was pulling values, and the
\* run ended with the TypeError of the groupby.
C36_Witness ==
  /\ pc = "error"
  /\ err = "TypeError: 'NoneType' object is not subscriptable"
  /\ stack # <<>>
  /\ Top.phase = "inner"
  /\ IsRead(trace[Len(trace)], SET_INPUT_TYPES)

\* Two calls of reduce, the second the next after the first, the first of
\* which did not see its values end.
PartialThenNext(q1, q2) ==
  /\ q1 \in ReduceCalls /\ q2 \in ReduceCalls /\ q1 < q2
  /\ \A r \in (q1 + 1)..(q2 - 1) : trace[r][1] \notin {"reduce", "end"}

\* The positions of the reads strictly between positions a and b.
ReadsBetween(a, b) == {r \in (a + 1)..(b - 1) : trace[r][1] = "read"}

\* The values of the run of REDUCE_VALUE reads that starts right after
\* position q of the trace, decoded.
ValuesReadFrom(q) ==
  LET R == ReadsAfter(q)
      n == CHOOSE m \in 0..Len(R) :
             /\ \A r \in 1..m : R[r][2] = REDUCE_VALUE
             /\ (m < Len(R) => R[m + 1][2] # REDUCE_VALUE)
  IN [k \in 1..n |-> Decode(get_v, R[k][3])]

\* C37: when reduce returned without having seen its values end, the rest
\* of its group was read and went to no reducer: between that call and
\* the next one the reads are REDUCE_VALUE commands (the rest of the
\* group), then REDUCE_KEY, then one REDUCE_VALUE, the first of the next
\* group; and the next call sees that value and then the values read
\* after it, in order, and no other.
C37_GroupIsolation ==
  \A q2 \in ReduceCalls : \A q1 \in {q \in ReduceCalls : q < q2} :
    PartialThenNext(q1, q2) =>
      LET reads == ReadsBetween(q1, q2)
          keys == {r \in reads : IsRead(trace[r], REDUCE_KEY)}
          last == CHOOSE r \in reads : \A x \in reads : x <= r
      IN /\ keys # {}
         /\ \A r \in reads : IsRead(trace[r], REDUCE_VALUE) \/ IsRead(trace[r], REDUCE_KEY)
         /\ \A r \in reads, k \in keys : (r > k /\ r # last) => r \in keys
         /\ IsRead(trace[last], REDUCE_VALUE)
         /\ \E k \in keys : k < last
         /\ \A r \in (last + 1)..(q2 - 1) : trace[r][1] # "value"
         /\ IsPrefix(CallValues(q2),
                     <<Decode(get_v, trace[last][3])>> \o ValuesReadFrom(q2))

\* A group of three values of which the reducer took one, then a key and
\* a value, and the reducer took that value.
C37_Witness ==
  \E q1 \in ReduceCalls, q2 \in ReduceCalls :
    /\ PartialThenNext(q1, q2)
    /\ Cardinality({r \in ReadsBetween(q1, q2) : IsRead(trace[r], REDUCE_VALUE)}) = 3
    /\ Cardinality({r \in (q1 + 1)..(q2 - 1) : trace[r][1] = "value"}) = 1
    /\ Len(CallValues(q2)) = 1

\* C38: an emit(k, v) that goes to the uplink while a partitioner is
\* active calls partition once, with the key as encoded for the output
\* (the pickle of k under opaque encoding, else its UTF-8 text under
\* auto-serialize, else k) and with the numReduces that the last RUN_MAP
\* stored; the PARTITIONED_OUTPUT that follows carries that same key and
\* the partition the call returned.
C38_PartitionerGetsEncodedKey ==
  [][(nemits' = nemits + 1 /\ context.partitioner /\ ~context.record_writer)
        => LET k == Appended[1][2]
               call == Appended[2]
               out == Appended[3]
           IN /\ Len(Appended) = 3
              /\ call[1] = "partition"
              /\ IsUp(out, PARTITIONED_OUTPUT)
              /\ call[2] = out[4]
              /\ call[2] = (IF private_encoding THEN k + PickleBase
                            ELSE IF auto_serialize THEN k + Utf8Base
                            ELSE k)
              /\ call[3] = context.nred
              /\ call[3] = LastRunMapNred
              /\ out[3] = call[2] % call[3]]_vars

\* With opaque encoding off and auto-serialize on, the partitioner was
\* asked about the text-encoded key 1, for two reducers.
C38_Witness ==
  /\ context.partitioner
  /\ ~private_encoding
  /\ auto_serialize
  /\ Len(trace) >= 3
  /\ trace[Len(trace) - 2] = Call("emit", 1, 2)
  /\ trace[Len(trace) - 1] = Call("partition", 1 + Utf8Base, 2)
  /\ IsUp(trace[Len(trace)], PARTITIONED_OUTPUT)

\* C39: when the close of a component raises in Context.close, no later
\* component is closed by that run of Context.close, and DONE is written
\* all the same: the event after the failed close is the DONE.
C39_FailedCloseSkipsLaterComponents ==
  \A j \in FailedCloses :
    /\ j < Len(trace)
    /\ IsUp(trace[j + 1], DONE)

\* The mapper's close raised while a record reader was present: the
\* reader was not closed, and DONE was written.
C39_Witness ==
  /\ context.mapper
  /\ context.record_reader
  /\ Len(trace) >= 2
  /\ trace[Len(trace) - 1] = Call("close", 1, 1)
  /\ IsUp(trace[Len(trace)], DONE)

\* C40: an AUTHENTICATION_REQ read by an engine that is authenticated
\* already is handled as the first one was.  With a secret S the digest is
\* compared again: the right digest gets one more AUTHENTICATION_RESP with
\* create_digest(S, create_digest(S, challenge)), a wrong one ends the run
\* with the authentication error and writes nothing; with no secret the
\* request is taken as it is.  The engine stays authenticated and the
\* context and the deserializers keep their values in every case.
C40_ReauthenticationIsVerified ==
  [][(auth_done /\ Reads /\ IsRead(Appended[1], AUTHENTICATION_REQ))
        => LET digest == Appended[1][3]
               challenge == Appended[1][4]
           IN /\ auth_done'
              /\ UNCHANGED <<context, stack, private_encoding, auto_serialize,
                             get_k, get_v>>
              /\ IF password = None
                   THEN pc' = "deliver" /\ Len(Appended) = 1
                 ELSE IF digest = create_digest(password, challenge)
                   THEN /\ pc' = "deliver"
                        /\ Len(Appended) = 2
                        /\ Appended[2] =
                             Up(AUTHENTICATION_RESP,
                                create_digest(password, create_digest(password, challenge)),
                                None, None)
                 ELSE /\ pc' = "error"
                      /\ err' = "RuntimeError: server failed to authenticate"
                      /\ Len(Appended) = 1]_vars

\* Two requests with the right digest, each answered.
C40_Witness ==
  /\ password \in Secrets
  /\ auth_done
  /\ Len(trace) = 4
  /\ IsRead(trace[1], AUTHENTICATION_REQ)
  /\ IsUp(trace[2], AUTHENTICATION_RESP)
  /\ IsRead(trace[3], AUTHENTICATION_REQ)
  /\ IsUp(trace[4], AUTHENTICATION_RESP)

====
